---------------------------- MODULE Spec2Model ----------------------------
(***************************************************************************)
(* ChatList: the multi-provider prompt dispatch layer.                     *)
(*                                                                         *)
(*   network.py   NetworkClient.post   one HTTP POST with retry / backoff  *)
(*   models.py    ModelHandler         credential lookup, provider         *)
(*                                     variants, fan-out over the models   *)
(*   main.py      SendPromptThread     the same fan-out in a worker thread *)
(*                                                                         *)
(* Text is modelled as a sequence of tokens (strings): concatenation is    *)
(* \o, "x in s" is token membership, s.strip() drops blank tokens at both  *)
(* ends, s.lower() lowers every token.  The messages of the program are    *)
(* written in English tokens; the tokens the code tests for ("credits",    *)
(* "payment", "privacy", "data policy", "/", "<html") are kept verbatim.   *)
(* An optional value (Python None or a string) is a sequence of length 0   *)
(* or 1: None == <<>>, Some(s) == <<s>>.                                   *)
(***************************************************************************)
EXTENDS Integers, Sequences, FiniteSets, TLC

VARIABLES
    impl,         \* "handler": send_prompt_to_all_active, "thread": SendPromptThread.run,
                  \* "post": a bare NetworkClient.post call, "improver":
                  \* PromptImprover.improve_prompt, "db": calls on the Database only
    models,       \* the ordered list of active endpoint records
    environ,      \* os.environ: variable name -> value
    max_retries,  \* NetworkClient.max_retries
    cbmode,       \* the caller's callback: "none" (not given), "ok" (returns),
                  \* "raise_on_response" (raises when handed a response),
                  \* "raise_always"
    pc,           \* position of the running call
    idx,          \* 1-based index of the endpoint being dispatched
    attempt,      \* loop variable of NetworkClient.post
    call,         \* what send_prompt_to_model prepared: the variant and the request
    ret,          \* what NetworkClient.post did last: retried, raised or returned
    outcome,      \* what send_prompt_to_model produced for the current endpoint
    results,      \* the list send_prompt_to_all_active returns
    delivered,    \* every callback invocation / emitted signal, in order
    events,       \* every HTTP attempt, backoff sleep and callback invocation, in order
    win,          \* MainWindow: the send button, the worker thread, the signals handled
    db,           \* the SQLite database: the rows of its four tables
    calls         \* the calls made on the Database, oldest first, each with what it
                  \* returned or raised; for the main window, the latest click

vars == <<impl, models, environ, max_retries, cbmode, pc, idx, attempt, call,
          ret, outcome, results, delivered, events, win, db, calls>>

-----------------------------------------------------------------------------
(* Bounds of the model *)

MaxModels == 2

MaxRetries == 3

\* how many calls are made on the Database in one run
MaxCalls == 4

-----------------------------------------------------------------------------
(* Text helpers *)

None == << >>

Some(s) == << s >>

IsNone(o) == o = << >>

Range(s) == { s[i] : i \in DOMAIN s }

\* str.lower() on one token
LowerTok(t) ==
    CASE t = "Credits"    -> "credits"
      [] t = "Payment"    -> "payment"
      [] t = "Privacy"    -> "privacy"
      [] t = "OpenRouter" -> "openrouter"
      [] t = "OpenAI"     -> "openai"
      [] t = "GPT"        -> "gpt"
      [] t = "DeepSeek"   -> "deepseek"
      [] t = "Groq"       -> "groq"
      [] t = "OPENROUTER.AI" -> "openrouter.ai"
      [] OTHER            -> t

Lower(s) == [ i \in DOMAIN s |-> LowerTok(s[i]) ]

\* "w in s"
Contains(s, w) == \E i \in DOMAIN s : s[i] = w

IsBlankTok(t) == t \in {" ", "\t", "\n"}

RECURSIVE LStrip(_)
LStrip(s) == IF s # << >> /\ IsBlankTok(Head(s)) THEN LStrip(Tail(s)) ELSE s

RECURSIVE RStrip(_)
RStrip(s) ==
    IF s # << >> /\ IsBlankTok(s[Len(s)]) THEN RStrip(SubSeq(s, 1, Len(s) - 1)) ELSE s

\* str.strip()
Strip(s) == RStrip(LStrip(s))

\* s[:n]
Take(s, n) == IF Len(s) <= n THEN s ELSE SubSeq(s, 1, n)

\* Python truthiness of an optional string: None and "" are false
Truthy(o) == o # None /\ o[1] # << >>

StartsWithHtml(s) ==
    LET t == Strip(s) IN t # << >> /\ t[1] \in {"<!DOCTYPE", "<html"}

RECURSIVE Pow2(_)
Pow2(n) == IF n <= 0 THEN 1 ELSE 2 * Pow2(n - 1)


-----------------------------------------------------------------------------
(* JSON payloads.  A payload is a JSON object with a fixed set of fields;   *)
(* every field is [t, v]: t says how the field is present and v holds its  *)
(* text.                                                                   *)

Absent == [t |-> "absent", v |-> << >>]

Str(s) == [t |-> "str", v |-> s]

\* error: "dict" = {"message": v}, "dict_nomsg" = an object without message
\*        (v is its str()), "str" = a plain string, "dict_null" =
\*        {"message": null} (v is str(None))
\* message: "str" = a string, "null" = null (v is its JSON text)
\* choices: "empty" = [], "content" = [{"message": {"content": v}}],
\*        "content_null" = [{"message": {"content": null}}],
\*        "msg_text" = [{"message": {"text": v}}], "msg_empty" = [{"message": {}}],
\*        "text" = [{"text": v}], "other" = [{"index": 0}]
EmptyPayload ==
    [error |-> Absent, message |-> Absent, code |-> Absent,
     choices |-> Absent, text |-> Absent, response |-> Absent]

Has(p, f) == p[f].t # "absent"

RenderField(p, f) == IF Has(p, f) THEN <<f, ":">> \o p[f].v ELSE << >>

\* str(payload) / response.text of a JSON body
Render(p) ==
    <<"{">> \o RenderField(p, "error") \o RenderField(p, "message")
            \o RenderField(p, "code") \o RenderField(p, "choices")
            \o RenderField(p, "text") \o RenderField(p, "response") \o <<"}">>

\* An HTTP body: JSON (data, text is its rendering) or not JSON (text only)
JsonBody(p) == [json |-> TRUE, data |-> p, text |-> Render(p)]

TextBody(s) == [json |-> FALSE, data |-> EmptyPayload, text |-> s]

CtJson == <<"application/json">>

CtHtml == <<"text/html", ";", "charset=utf-8">>

CtPlain == <<"text/plain">>

\* What one HTTP attempt can come back with
Timeout == [t |-> "timeout", status |-> 0, ctype |-> << >>, body |-> TextBody(<< >>)]

ConnErr == [t |-> "connerr", status |-> 0, ctype |-> << >>, body |-> TextBody(<< >>)]

ReqExc == [t |-> "reqexc", status |-> 0, ctype |-> << >>, body |-> TextBody(<< >>)]

Http(s, ct, b) == [t |-> "http", status |-> s, ctype |-> ct, body |-> b]

StatusStr(s) ==
    CASE s = 400 -> "400" [] s = 401 -> "401" [] s = 402 -> "402"
      [] s = 403 -> "403" [] s = 404 -> "404" [] s = 429 -> "429"
      [] s = 500 -> "500" [] s = 503 -> "503" [] OTHER -> "NNN"

NumStr(n) ==
    CASE n = 0 -> "0" [] n = 1 -> "1" [] n = 2 -> "2" [] n = 3 -> "3"
      [] n = 4 -> "4" [] n = 5 -> "5" [] OTHER -> "N"

\* requests.Response.raise_for_status
IsHttpError(s) == 400 <= s /\ s < 600

-----------------------------------------------------------------------------
(* network.py: NetworkClient.post *)

DefaultMaxRetries == 3

ErrTextLimit == 500

CreditsUrl == <<"https://openrouter.ai/settings/", "credits">>

PrivacyUrl == <<"https://openrouter.ai/settings/", "privacy">>

MentionsPolicy(s) == Contains(Lower(s), "data policy") \/ Contains(Lower(s), "privacy")

MentionsCredits(s) == Contains(Lower(s), "credits")

MentionsPayment(s) == Contains(Lower(s), "payment")

NotEnoughCredits(msg) ==
    <<"Not enough credits for the request.">> \o msg \o <<"Top up:">> \o CreditsUrl

\* the raw text is appended whole
TextErrorMsgUntruncated(status, text) ==
    IF MentionsPolicy(text)
    THEN <<"Data policy error. Set it up:">> \o PrivacyUrl
    ELSE IF MentionsCredits(text) \/ MentionsPayment(text) \/ status = 402
         THEN <<"Not enough credits. Top up:">> \o CreditsUrl
         ELSE <<"HTTP error", StatusStr(status), ":">> \o text

\* network.py 129-137: the body is not JSON
TextErrorMsg(status, text) ==
    LET t == Take(text, ErrTextLimit)
    IN  IF MentionsPolicy(t)
        THEN <<"Data policy error. Set it up:">> \o PrivacyUrl
        ELSE IF MentionsCredits(t) \/ MentionsPayment(t) \/ status = 402
             THEN <<"Not enough credits. Top up:">> \o CreditsUrl
             ELSE <<"HTTP error", StatusStr(status), ":">> \o t

\* network.py 105-128: the message built from a JSON error body
JsonErrorMsg(status, p) ==
    IF Has(p, "error")
    THEN p.error.v
    ELSE IF p.message.t = "null"
         \* None has no lower(): line 117 raises and the bare except of 129
         \* goes on with the text of the body
         THEN TextErrorMsg(status, Render(p))
    ELSE IF Has(p, "message")
         THEN LET m0 == p.message.v
                  m1 == IF MentionsPolicy(m0)
                        THEN m0 \o <<"Set the data policy at:">> \o PrivacyUrl
                        ELSE IF MentionsCredits(m0) \/ MentionsPayment(m0) \/ status = 402
                             THEN IF MentionsCredits(m0)
                                  THEN m0 \o <<"Lower max_tokens or top up at:">> \o CreditsUrl
                                  ELSE NotEnoughCredits(m0)
                             ELSE m0
              IN  IF Has(p, "code") THEN m1 \o <<"(code:">> \o p.code.v \o <<")">> ELSE m1
         ELSE Render(p)

\* the status is made part of every message
HttpErrorMsgWithStatus(status, body) ==
    <<"HTTP error", StatusStr(status), ":">>
        \o (IF body.json THEN JsonErrorMsg(status, body.data)
                         ELSE TextErrorMsg(status, body.text))

\* network.py 103-144: except HTTPError
HttpErrorMsg(status, body) ==
    LET m == IF body.json THEN JsonErrorMsg(status, body.data)
                          ELSE TextErrorMsg(status, body.text)
    IN  IF status = 402 /\ ~MentionsCredits(m) /\ ~MentionsPayment(m)
        THEN NotEnoughCredits(m)
        ELSE m

\* network.py 137, 141: an error_msg that is None (a null message) has no
\* += and no lower(); the exception is raised inside the except clause and
\* leaves post
HttpErrorCrashes(status, body) ==
    LET t == Take(body.text, ErrTextLimit)
    IN  /\ body.json
        /\ \/ body.data.error.t = "dict_null" /\ status = 402
           \/ /\ ~Has(body.data, "error")
              /\ body.data.message.t = "null"
              /\ ~MentionsPolicy(t)
              /\ ~(MentionsCredits(t) \/ MentionsPayment(t) \/ status = 402)

\* What one pass of the loop body does
Retry(secs) == [kind |-> "retry", sleep |-> secs, msg |-> << >>, data |-> EmptyPayload]

Raise(m) == [kind |-> "raise", sleep |-> 0, msg |-> m, data |-> EmptyPayload]

Return(p) == [kind |-> "return", sleep |-> 0, msg |-> << >>, data |-> p]

\* an exception that is not an APIError leaves post
Crash(m) == [kind |-> "crash", sleep |-> 0, msg |-> m, data |-> EmptyPayload]

NoLower == <<"'NoneType' object has no attribute 'lower'">>

NoAdd == <<"unsupported operand type(s) for +=: 'NoneType' and 'str'">>

\* the body is parsed first and the markup test is made only when it is not JSON
PostSuccessJsonFirst(url, ctype, body) ==
    IF body.json
    THEN Return(body.data)
    ELSE IF StartsWithHtml(body.text)
         THEN Raise(<<"HTML instead of JSON. URL:">> \o url
                    \o <<"First 200 characters:">> \o Take(body.text, 200))
         ELSE Return([EmptyPayload EXCEPT !.text = Str(body.text)])

\* network.py 59-89: a response that passed raise_for_status
PostSuccess(url, ctype, body) ==
    IF Contains(Lower(ctype), "text/html") \/ StartsWithHtml(body.text)
    THEN Raise(<<"HTML instead of JSON. URL:">> \o url \o <<"Content-Type:">> \o Lower(ctype)
               \o <<"First 200 characters:">> \o Take(body.text, 200))
    ELSE IF body.json
         THEN Return(body.data)
         ELSE Return([EmptyPayload EXCEPT !.text = Str(body.text)])

\* one retry too many: the last attempt is followed by a sleep as well
OnTimeoutOffByOne(a, mr, url) ==
    IF a < mr
    THEN Retry(Pow2(a))
    ELSE Raise(<<"Timeout of request to">> \o url \o <<"after", NumStr(mr), "attempts">>)

\* network.py 91-95
OnTimeout(a, mr, url) ==
    IF a < mr - 1
    THEN Retry(Pow2(a))
    ELSE Raise(<<"Timeout of request to">> \o url \o <<"after", NumStr(mr), "attempts">>)

\* a connection failure handled by the timeout clause
OnConnectionErrorAsTimeout(a, mr, url) ==
    IF a < mr - 1
    THEN Retry(Pow2(a))
    ELSE Raise(<<"Timeout of request to">> \o url \o <<"after", NumStr(mr), "attempts">>)

\* network.py 97-101
OnConnectionError(a, mr, url) ==
    IF a < mr - 1
    THEN Retry(Pow2(a))
    ELSE Raise(<<"Connection error to">> \o url)

\* every error status is retried like a timeout
PostAttemptResultRetryingErrors(a, mr, url, o) ==
    CASE o.t = "timeout" -> OnTimeout(a, mr, url)
      [] o.t = "connerr" -> OnConnectionError(a, mr, url)
      [] o.t = "reqexc"  -> Raise(<<"Request error to">> \o url)
      [] OTHER ->
            IF IsHttpError(o.status)
            THEN OnTimeout(a, mr, url)
            ELSE PostSuccess(url, o.ctype, o.body)

\* 429 and 5xx are retried like a timeout
PostAttemptResultRetryingStatus(a, mr, url, o) ==
    CASE o.t = "timeout" -> OnTimeout(a, mr, url)
      [] o.t = "connerr" -> OnConnectionError(a, mr, url)
      [] o.t = "reqexc"  -> Raise(<<"Request error to">> \o url)
      [] OTHER ->
            IF o.status = 429 \/ o.status >= 500
            THEN OnTimeout(a, mr, url)
            ELSE IF 400 <= o.status
                 THEN Raise(HttpErrorMsg(o.status, o.body))
                 ELSE PostSuccess(url, o.ctype, o.body)

\* network.py 51-147: the body of the loop for attempt a, the transport answering o
PostAttemptResult(a, mr, url, o) ==
    CASE o.t = "timeout" -> OnTimeout(a, mr, url)
      [] o.t = "connerr" -> OnConnectionError(a, mr, url)
      [] o.t = "reqexc"  -> Raise(<<"Request error to">> \o url)
      [] OTHER ->
            IF IsHttpError(o.status)
            THEN IF HttpErrorCrashes(o.status, o.body)
                 THEN Crash(IF o.status = 402 THEN NoLower ELSE NoAdd)
                 ELSE Raise(HttpErrorMsg(o.status, o.body))
            ELSE PostSuccess(url, o.ctype, o.body)

\* network.py 149: the loop ended without returning or raising
PostExhausted(mr, url) ==
    Raise(<<"Request to">> \o url \o <<"failed after", NumStr(mr), "attempts">>)

-----------------------------------------------------------------------------
(* models.py: ModelHandler *)

Prompt == <<"hello">>

\* An endpoint record, a row of the models table (db.py 64-73).  model_type
\* is nullable: None or Some(tag).
Endpoint(id, name, url, api_id, mtype) ==
    [id |-> id, name |-> name, api_url |-> url, api_id |-> api_id,
     model_type |-> mtype, is_active |-> 1]

\* What a call produces: it returned val (an optional string) or raised exc
\* with str(e) = msg
Returned(v) == [exc |-> "none", val |-> v, msg |-> << >>]

Raised(kind, m) == [exc |-> kind, val |-> None, msg |-> m]

APIError(m) == Raised("APIError", m)

\* os.getenv
GetEnv(env, name) == IF name \in DOMAIN env THEN Some(env[name]) ELSE None

HasSeparator(api_id) == Contains(api_id, "/") \/ Contains(api_id, "\\")

LooksLikeModelName(api_id) ==
    <<"Error:">> \o api_id
        \o <<"looks like a model name, not an environment variable.",
             "The API ID field must hold the name of a variable of .env"
             >>

KeyNotFound(api_id) ==
    <<"API key not found for variable">> \o api_id
        \o <<"Check that .env exists and contains">> \o api_id

\* the lookup alone, without the test for a model name
get_api_key_LookupOnly(env, api_id) ==
    IF api_id = << >> \/ Strip(api_id) = << >>
    THEN Returned(None)
    ELSE Returned(GetEnv(env, Strip(api_id)))

\* the key of the dispatch before is kept and handed out again
get_api_key_Cached(env, api_id) ==
    IF call.exc = "none" /\ Len(call.req.headers.Authorization) > 1
    THEN Returned(Some(Tail(call.req.headers.Authorization)))
    ELSE Returned(GetEnv(env, Strip(api_id)))

\* models.py 31-55: get_api_key; the key is returned in val
get_api_key(env, api_id) ==
    IF api_id = << >> \/ Strip(api_id) = << >>
    THEN Returned(None)
    ELSE LET api_key == GetEnv(env, Strip(api_id))
         IN  IF ~Truthy(api_key) /\ HasSeparator(api_id)
             THEN APIError(LooksLikeModelName(api_id))
             ELSE Returned(api_key)

\* models.py 106-118 (and 162-174, 216-228, 358-370, 412-424): the
\* credential of an endpoint; the key is returned in val
ResolveCredential(env, model) ==
    LET api_id == Strip(model.api_id)
    IN  IF api_id = << >>
        THEN APIError(<<"API ID is not set in the model settings">>)
        ELSE LET k == get_api_key(env, api_id)
             IN  IF k.exc # "none" THEN k
                 ELSE IF ~Truthy(k.val) THEN APIError(KeyNotFound(api_id))
                 ELSE k

\* the tag is matched as it is written, without .lower()
SelectVariantCaseSensitive(tag) ==
    CASE Contains(tag, "openrouter") -> "openrouter"
      [] Contains(tag, "openai") \/ Contains(tag, "gpt") -> "openai"
      [] Contains(tag, "deepseek") -> "deepseek"
      [] Contains(tag, "groq") -> "groq"
      [] OTHER -> "generic"

\* models.py 80-93: the variant send_prompt_to_model selects (the tag is not null)
SelectVariant(tag) ==
    LET model_type == Lower(tag)
    IN  CASE Contains(model_type, "openrouter") -> "openrouter"
          [] Contains(model_type, "openai") \/ Contains(model_type, "gpt") -> "openai"
          [] Contains(model_type, "deepseek") -> "deepseek"
          [] Contains(model_type, "groq") -> "groq"
          [] OTHER -> "generic"

CanonicalPath == "/api/v1/chat/completions"

CanonicalUrl == <<"https:", "/", "/", "openrouter.ai", CanonicalPath>>

Count(s, w) == Cardinality({ i \in DOMAIN s : s[i] = w })

\* the host is not looked at: every URL without the canonical path is replaced
OpenRouterUrlForEveryHost(api_url) ==
    LET url == Strip(api_url)
    IN  IF ~Contains(Lower(url), CanonicalPath) THEN CanonicalUrl ELSE url

\* models.py 230-248: the URL the OpenRouter variant posts to
OpenRouterUrl(api_url) ==
    LET url == Strip(api_url)
    IN  IF Contains(Lower(url), "openrouter.ai") /\ ~Contains(Lower(url), CanonicalPath)
        THEN IF Contains(url, "/") /\ Count(url, "/") > 3
             THEN CanonicalUrl
             ELSE IF url = << >> \/ url[Len(url)] # CanonicalPath
                  THEN CanonicalUrl
                  ELSE url
        ELSE url

Headers(variant, api_key) ==
    [Authorization |-> <<"Bearer">> \o api_key,
     ContentType   |-> "application/json",
     Referer       |-> IF variant = "openrouter"
                       THEN "https://github.com/yourusername/chatlist" ELSE "",
     XTitle        |-> IF variant = "openrouter" THEN "ChatList" ELSE ""]

\* the conversation is kept: one user message per dispatch made so far
RequestBodyWithHistory(variant, model) ==
    [model       |-> model.name,
     messages    |-> [k \in 1..idx |-> [role |-> "user", content |-> Prompt]],
     temperature |-> IF variant = "generic" THEN "absent" ELSE "0.7",
     max_tokens  |-> IF variant = "openrouter" THEN "4096" ELSE "absent"]

\* models.py 129-135, 184-190, 271-278, 380-386, 433-438: json_data
RequestBody(variant, model) ==
    [model       |-> IF variant = "openrouter"
                     THEN IF Strip(model.name) = << >>
                          THEN <<"openai", "/", "gpt-3.5-turbo">>
                          ELSE Strip(model.name)
                     ELSE model.name,
     messages    |-> << [role |-> "user", content |-> Prompt] >>,
     temperature |-> IF variant = "generic" THEN "absent" ELSE "0.7",
     max_tokens  |-> IF variant = "openrouter" THEN "4096" ELSE "absent"]

\* The request a variant hands to NetworkClient.post
BuildRequest(variant, model, api_key) ==
    [url     |-> IF variant = "openrouter" THEN OpenRouterUrl(model.api_url)
                 ELSE model.api_url,
     headers |-> Headers(variant, api_key),
     body    |-> RequestBody(variant, model)]

NoRequest ==
    [url |-> << >>, headers |-> Headers("generic", << >>),
     body |-> RequestBody("generic", Endpoint(0, << >>, << >>, << >>, None))]

\* models.py 80-93 and the head of each _send_to_*: everything
\* send_prompt_to_model does before it calls post.  plan.exc = "none": post
\* is called with plan.req; otherwise the exception is raised.
Prepare(env, model) ==
    IF IsNone(model.model_type)
    THEN [exc |-> "Exception",
          msg |-> <<"'NoneType' object has no attribute 'lower'">>,
          variant |-> "generic", req |-> NoRequest]
    ELSE LET variant == SelectVariant(model.model_type[1])
             cred    == ResolveCredential(env, model)
         IN  IF cred.exc # "none"
             THEN [exc |-> cred.exc, msg |-> cred.msg, variant |-> variant,
                   req |-> NoRequest]
             ELSE [exc |-> "none", msg |-> << >>, variant |-> variant,
                   req |-> BuildRequest(variant, model, cred.val[1])]

\* choices is present and not empty
HasChoice(p) == p.choices.t \notin {"absent", "empty"}

\* the first choice has a "message" key
ChoiceHasMessage(p) ==
    p.choices.t \in {"content", "content_null", "msg_text", "msg_empty"}

VariantLabel(variant) ==
    CASE variant = "openai" -> "OpenAI"
      [] variant = "deepseek" -> "DeepSeek"
      [] variant = "groq" -> "Groq"
      [] variant = "openrouter" -> "OpenRouter"
      [] OTHER -> "API"

KeyError(variant, key) ==
    APIError(<<"Error while requesting", VariantLabel(variant), ":", key>>)

\* response["choices"][0]["message"]["content"]
MessageContent(variant, p) ==
    CASE p.choices.t = "content"      -> Returned(Some(p.choices.v))
      [] p.choices.t = "content_null" -> Returned(None)
      [] p.choices.t \in {"msg_text", "msg_empty"} -> KeyError(variant, "'content'")
      [] OTHER -> KeyError(variant, "'message'")

\* models.py 141-149 (OpenAI), 195-203 (DeepSeek), 391-399 (Groq)
ParseOpenAI(variant, p) ==
    IF HasChoice(p)
    THEN MessageContent(variant, p)
    ELSE APIError(<<"Unexpected response format from", VariantLabel(variant), "API">>)

\* the error field is looked at before the text field
ParseOpenRouterErrorFirst(url, p) ==
    IF Has(p, "error")
    THEN APIError(<<"Error from OpenRouter API:">> \o p.error.v)
    ELSE IF Has(p, "text") /\ StartsWithHtml(p.text.v)
    THEN APIError(<<"HTML instead of JSON from OpenRouter. Current URL:">> \o url
                  \o <<"First 200 characters:">> \o Take(p.text.v, 200))
    ELSE APIError(<<"Unexpected response format from OpenRouter API. Full response:">>
                  \o Take(Render(p), ErrTextLimit))

\* models.py 283-345
ParseOpenRouter(url, p) ==
    IF Has(p, "text") /\ StartsWithHtml(p.text.v)
    THEN APIError(<<"HTML instead of JSON from OpenRouter. Current URL:">> \o url
                  \o <<"First 200 characters:">> \o Take(p.text.v, 200))
    ELSE IF Has(p, "error")
    THEN APIError(<<"Error from OpenRouter API:">> \o p.error.v)
    ELSE IF HasChoice(p)
    THEN IF ChoiceHasMessage(p)
         THEN IF p.choices.t = "content" /\ p.choices.v # << >>
              THEN Returned(Some(p.choices.v))
              ELSE IF p.choices.t = "msg_text"
                   THEN Returned(Some(p.choices.v))
                   ELSE APIError(<<"The response holds no text. Structure:">>
                                 \o (IF p.choices.t = "msg_empty" THEN << >>
                                     ELSE <<"content">>))
         ELSE IF p.choices.t = "text"
              THEN Returned(Some(p.choices.v))
              ELSE APIError(<<"Unexpected structure of choice:", "index">>)
    ELSE APIError(<<"Unexpected response format from OpenRouter API. Full response:">>
                  \o Take(Render(p), ErrTextLimit))

\* models.py 443-463
ParseGeneric(p) ==
    IF HasChoice(p) /\ ChoiceHasMessage(p)
    THEN MessageContent("generic", p)
    ELSE IF HasChoice(p) /\ p.choices.t = "text"
    THEN Returned(Some(p.choices.v))
    ELSE IF Has(p, "text")
    THEN Returned(Some(p.text.v))
    ELSE IF Has(p, "response")
    THEN Returned(Some(p.response.v))
    ELSE Returned(Some(Render(p)))

\* What a variant does with the payload post returned
ParseResponse(variant, url, p) ==
    CASE variant = "openrouter" -> ParseOpenRouter(url, p)
      [] variant = "generic"    -> ParseGeneric(p)
      [] OTHER                  -> ParseOpenAI(variant, p)

-----------------------------------------------------------------------------
(* The calls as a state machine *)

\* events: an HTTP attempt (n: the attempt index, key, url, body: the
\* Authorization header, the URL and the JSON body posted, o: what came
\* back), a backoff sleep (n: the seconds), a callback invocation, the
\* finished signal
NoOutcome == [t |-> "", status |-> 0, ctype |-> << >>, body |-> TextBody(<< >>)]

HttpEvent(i, a, r, o) ==
    [e |-> "http", i |-> i, n |-> a, key |-> r.headers.Authorization,
     url |-> r.url, body |-> r.body, o |-> o]

SleepEvent(i, secs) ==
    [e |-> "sleep", i |-> i, n |-> secs, key |-> << >>, url |-> << >>,
     body |-> NoRequest.body, o |-> NoOutcome]

CallbackEvent(i) ==
    [e |-> "cb", i |-> i, n |-> 0, key |-> << >>, url |-> << >>,
     body |-> NoRequest.body, o |-> NoOutcome]

FinishedEvent ==
    [e |-> "finished", i |-> 0, n |-> 0, key |-> << >>, url |-> << >>,
     body |-> NoRequest.body, o |-> NoOutcome]

\* the corrected URL is written back into the endpoint record
BeginEndpointStoringUrl ==
    /\ pc = "loop"
    /\ idx <= Len(models)
    /\ LET plan == Prepare(environ, models[idx])
       IN  /\ call' = plan
           /\ IF plan.exc = "none"
              THEN /\ pc' = "post"
                   /\ outcome' = outcome
                   /\ models' = [models EXCEPT ![idx].api_url = plan.req.url]
              ELSE /\ pc' = "deliver"
                   /\ outcome' = Raised(plan.exc, plan.msg)
                   /\ models' = models
    /\ attempt' = 0
    /\ UNCHANGED <<win, db, calls, impl, environ, max_retries, cbmode, idx, ret, results,
                   delivered, events>>

\* models.py 80-138, main.py 61: send_prompt_to_model up to its call of post
BeginEndpoint ==
    /\ pc = "loop"
    /\ idx <= Len(models)
    /\ LET plan == Prepare(environ, models[idx])
       IN  /\ call' = plan
           /\ IF plan.exc = "none"
              THEN /\ pc' = "post"
                   /\ outcome' = outcome
              ELSE /\ pc' = "deliver"
                   /\ outcome' = Raised(plan.exc, plan.msg)
    /\ attempt' = 0
    /\ UNCHANGED <<win, db, calls, impl, models, environ, max_retries, cbmode, idx, ret, results,
                   delivered, events>>

\* network.py 50-149: one pass of the retry loop of post, the transport
\* answering with one of the outcomes of O; a backoff sleep is part of the pass
PostStep(O) ==
    /\ pc = "post"
    /\ \E o \in O :
         LET r == IF attempt < max_retries
                  THEN PostAttemptResult(attempt, max_retries, call.req.url, o)
                  ELSE PostExhausted(max_retries, call.req.url)
             sent == IF attempt < max_retries
                     THEN <<HttpEvent(idx, attempt, call.req, o)>>
                     ELSE << >>
         IN  /\ ret' = r
             /\ IF r.kind = "retry"
                THEN /\ events' = events \o sent \o <<SleepEvent(idx, r.sleep)>>
                     /\ attempt' = attempt + 1
                     /\ pc' = "post"
                ELSE /\ events' = events \o sent
                     /\ attempt' = attempt
                     /\ pc' = IF impl = "post" THEN "done" ELSE "parse"
    /\ UNCHANGED <<win, db, calls, impl, models, environ, max_retries, cbmode, idx, call, outcome,
                   results, delivered>>

\* models.py 137-149, 280-345, 440-463: the variant's code after post
ParseStep ==
    /\ pc = "parse"
    /\ outcome' = IF ret.kind = "raise"
                  THEN APIError(ret.msg)
                  ELSE IF ret.kind = "crash"
                  THEN Raised("Exception", ret.msg)
                  ELSE ParseResponse(call.variant, call.req.url, ret.data)
    /\ pc' = "deliver"
    /\ UNCHANGED <<win, db, calls, impl, models, environ, max_retries, cbmode, idx, attempt, call,
                   ret, results, delivered, events>>

\* One invocation of the callback, as the callee saw it
Delivery(i, response, error) ==
    [i |-> i, model |-> models[i], response |-> response, error |-> error]

\* whether the caller's callback raises when invoked with this response
CallbackRaises(response) ==
    \/ cbmode = "raise_always"
    \/ cbmode = "raise_on_response" /\ response # None

CallbackError == <<"callback failed">>

Unexpected(m) == <<"Unexpected error:">> \o m

\* models.py 482-486: the entry of endpoint i
Result(i, response, error) ==
    [model |-> models[i], response |-> response, error |-> error]

\* the callback invocation of an except clause
ReportError(i, err) ==
    [calls   |-> IF cbmode = "none" THEN << >> ELSE <<Delivery(i, None, err)>>,
     error   |-> err,
     escapes |-> cbmode # "none" /\ CallbackRaises(None)]

\* models.py 495-503: the except clauses of send_prompt_to_all_active, for
\* an exception of class exc with str(e) = msg raised in the try block
HandlerExcept(i, exc, msg) ==
    ReportError(i, Some(IF exc = "APIError" THEN msg ELSE Unexpected(msg)))

\* models.py 488-505: the try statement of send_prompt_to_all_active and
\* results.append, for the outcome o of endpoint i.  Gives the callback
\* invocations made, the entry appended and whether an exception escaped.
HandlerDeliver(i, o) ==
    IF o.exc = "none"
    THEN IF cbmode = "none" \/ ~CallbackRaises(o.val)
         THEN [calls   |-> IF cbmode = "none" THEN << >>
                           ELSE <<Delivery(i, o.val, None)>>,
               entry   |-> Result(i, o.val, None),
               escapes |-> FALSE]
         \* the callback raised inside the try: an except clause runs
         ELSE LET x == HandlerExcept(i, "Exception", CallbackError)
              IN  [calls   |-> <<Delivery(i, o.val, None)>> \o x.calls,
                   entry   |-> Result(i, o.val, x.error),
                   escapes |-> x.escapes]
    ELSE LET x == HandlerExcept(i, o.exc, o.msg)
         IN  [calls |-> x.calls, entry |-> Result(i, None, x.error),
              escapes |-> x.escapes]

\* x or ""
OrEmpty(x) == IF Truthy(x) THEN x ELSE Some(<< >>)

\* the outcomes are kept and handed over after the last endpoint
ThreadDeliverAtTheEnd(i, o) ==
    [calls   |-> IF i = Len(models)
                 THEN [k \in 1..i |-> Delivery(k, OrEmpty(o.val), OrEmpty(Some(o.msg)))]
                 ELSE << >>,
     entry   |-> Result(i, o.val, None),
     escapes |-> FALSE]

\* a failed endpoint is passed over: nothing is emitted for it
ThreadDeliverDroppingErrors(i, o) ==
    IF o.exc = "none"
    THEN [calls |-> <<Delivery(i, OrEmpty(o.val), OrEmpty(None))>>,
          entry |-> Result(i, o.val, None), escapes |-> FALSE]
    ELSE [calls |-> << >>,
          entry |-> Result(i, None, Some(o.msg)), escapes |-> FALSE]

\* main.py 49-69: the try statement of SendPromptThread.run; the callback
\* emits result_received(model, response or "", error or "")
ThreadDeliver(i, o) ==
    IF o.exc = "none"
    THEN [calls |-> <<Delivery(i, OrEmpty(o.val), OrEmpty(None))>>,
          entry |-> Result(i, o.val, None), escapes |-> FALSE]
    ELSE [calls |-> <<Delivery(i, OrEmpty(None), OrEmpty(Some(o.msg)))>>,
          entry |-> Result(i, None, Some(o.msg)), escapes |-> FALSE]

\* The rest of one iteration of the fan-out loop
Deliver ==
    /\ pc = "deliver"
    /\ LET d == IF impl = "handler" THEN HandlerDeliver(idx, outcome)
                ELSE ThreadDeliver(idx, outcome)
       IN  /\ delivered' = delivered \o d.calls
           /\ events' = events \o [k \in DOMAIN d.calls |-> CallbackEvent(d.calls[k].i)]
           /\ IF d.escapes
              THEN /\ pc' = "escaped"
                   /\ UNCHANGED <<results, idx>>
              ELSE /\ pc' = "loop"
                   /\ results' = IF impl = "handler" THEN Append(results, d.entry)
                                 ELSE results
                   /\ idx' = idx + 1
    /\ UNCHANGED <<win, db, calls, impl, models, environ, max_retries, cbmode, attempt, call, ret,
                   outcome>>

\* run returns without emitting finished
FinishWithoutSignal ==
    /\ pc = "loop"
    /\ idx > Len(models)
    /\ pc' = "done"
    /\ UNCHANGED <<win, db, calls, impl, models, environ, max_retries, cbmode, idx, attempt, call,
                   ret, outcome, results, delivered, events>>

\* models.py 507: return results; main.py 71-75: close and emit finished
Finish ==
    /\ pc = "loop"
    /\ idx > Len(models)
    /\ pc' = "done"
    /\ events' = IF impl = "thread" THEN Append(events, FinishedEvent) ELSE events
    /\ UNCHANGED <<win, db, calls, impl, models, environ, max_retries, cbmode, idx, attempt, call,
                   ret, outcome, results, delivered>>

-----------------------------------------------------------------------------
(* Inputs *)

ApiUrl == <<"https:", "/", "/", "api.example.com", "/", "v1", "/", "chat">>

BrowseUrl == <<"https:", "/", "/", "openrouter.ai", "/", "llama-x">>

KeyVar == <<"API_KEY">>

SlashVar == <<"meta-llama", "/", "llama-3">>

BackslashVar == <<"C:", "\\", "key">>

Secret == <<"sk-1">>

Hi == <<"hi">>

BadKey == <<"bad", "key">>

Choices(t, v) == [EmptyPayload EXCEPT !.choices = [t |-> t, v |-> v]]

WithError(p, t, v) == [p EXCEPT !.error = [t |-> t, v |-> v]]

OkPayload == Choices("content", Hi)

Ok200 == Http(200, CtJson, JsonBody(OkPayload))

\* 2xx payloads
Payloads ==
    { OkPayload,
      Choices("content", << >>), Choices("content_null", << >>),
      Choices("msg_text", Hi), Choices("msg_empty", << >>),
      Choices("text", Hi), Choices("other", << >>), Choices("empty", << >>),
      WithError(EmptyPayload, "dict", BadKey),
      WithError(EmptyPayload, "str", <<"quota", "exceeded">>),
      WithError(EmptyPayload, "dict_nomsg", <<"{", "code", ":", "42", "}">>),
      WithError(OkPayload, "dict", BadKey),
      WithError(Choices("text", Hi), "str", BadKey),
      [EmptyPayload EXCEPT !.text = Str(Hi)],
      [EmptyPayload EXCEPT !.response = Str(Hi)],
      [EmptyPayload EXCEPT !.text = Str(<<"<html", "error page">>)],
      [OkPayload EXCEPT !.text = Str(<<" ", "<!DOCTYPE", "html">>)],
      [WithError(EmptyPayload, "dict", BadKey) EXCEPT !.text = Str(<<"<html", "error page">>)],
      EmptyPayload }

\* a raw text one token longer than the limit of network.py 131
LongText == [k \in 1..(ErrTextLimit + 1) |-> "x"]

\* bodies of HTTP error responses
ErrorBodies ==
    { JsonBody(WithError(EmptyPayload, "dict", BadKey)),
      JsonBody(WithError(EmptyPayload, "str", <<"no", "Credits">>)),
      JsonBody([EmptyPayload EXCEPT !.message = Str(<<"rate", "limited">>)]),
      JsonBody([EmptyPayload EXCEPT !.message = Str(<<"Payment", "required">>),
                                    !.code = Str(<<"42">>)]),
      JsonBody([EmptyPayload EXCEPT !.message = Str(<<"see", "data policy">>)]),
      JsonBody(EmptyPayload),
      TextBody(<<"Bad", "Gateway">>),
      TextBody(<<"out", "of", "credits">>),
      TextBody(<<"<html", "error page">>),
      JsonBody(WithError(EmptyPayload, "dict_nomsg", <<"{", "code", ":", "42", "}">>)),
      JsonBody(WithError(EmptyPayload, "dict_null", <<"None">>)),
      JsonBody([EmptyPayload EXCEPT !.message = [t |-> "null", v |-> <<"null">>]]),
      TextBody(LongText) }

ErrorStatuses == {400, 401, 402, 403, 404, 429, 500, 503}

OkStatuses == {200, 201}

\* everything one HTTP attempt can come back with
Outcomes ==
    {Timeout, ConnErr, ReqExc}
    \cup { Http(st, CtJson, b) : st \in ErrorStatuses, b \in ErrorBodies }
    \cup { Http(st, CtJson, JsonBody(pl)) : st \in OkStatuses, pl \in Payloads }
    \cup { Http(200, CtHtml, TextBody(<<"<!DOCTYPE", "html">>)),
           Http(200, CtHtml, JsonBody(OkPayload)),
           Http(200, CtPlain, TextBody(<<" ", "<html", "x">>)),
           Http(200, CtPlain, TextBody(<<"plain", "answer">>)),
           Http(201, CtJson, TextBody(<<"<html", "x">>)) }

\* the transport of the fan-out runs
FanOutcomes ==
    { Timeout, Ok200, Http(402, CtJson, TextBody(<<"Payment", "Required">>)),
      Http(402, CtJson, JsonBody(WithError(EmptyPayload, "dict", BadKey))),
      Http(402, CtJson, JsonBody(WithError(EmptyPayload, "dict_null", <<"None">>))) }

\* the transport of the single-endpoint runs
OneOutcomes ==
    {Timeout, ConnErr, Http(429, CtJson, JsonBody(WithError(EmptyPayload, "dict", BadKey)))}
    \cup { Http(200, CtJson, JsonBody(pl)) : pl \in Payloads }

Tags ==
    { None, Some(<<"OpenRouter">>), Some(<<"openai">>), Some(<<"my", "GPT", "proxy">>),
      Some(<<"DeepSeek">>), Some(<<"groq">>), Some(<<"custom">>), Some(<< >>) }

ApiIds == { << >>, <<" ">>, KeyVar, <<" ">> \o KeyVar \o <<" ">>, SlashVar, BackslashVar }

\* os.environ: API_KEY unset, empty, blank or set; the variables whose names
\* hold a separator unset or set
Environments ==
    { [n \in D |-> IF n = KeyVar THEN v ELSE Secret] :
        D \in { {}, {KeyVar}, {SlashVar, BackslashVar}, {KeyVar, SlashVar, BackslashVar} },
        v \in { << >>, <<" ">>, Secret } }

AllEndpoints ==
    { Endpoint(1, <<"a">>, u, a, t) : u \in {ApiUrl, BrowseUrl}, a \in ApiIds, t \in Tags }

NameOf(i) == CASE i = 1 -> <<"a">> [] i = 2 -> <<"b">> [] i = 3 -> <<"c">> [] OTHER -> <<"z">>

\* the endpoint configurations of the fan-out runs: url, api_id, model_type
FanConfigs ==
    { <<ApiUrl, KeyVar, Some(<<"openai">>)>>,
      <<BrowseUrl, KeyVar, Some(<<"OpenRouter">>)>>,
      <<ApiUrl, SlashVar, Some(<<"custom">>)>>,
      <<ApiUrl, KeyVar, None>> }

\* db.py 366-371: get_models(active_only=True) gives rows with distinct ids
\* and distinct names, ordered by name
DbLists ==
    UNION { { [i \in 1..n |-> Endpoint(i, NameOf(i), c[i][1], c[i][2], c[i][3])] :
                c \in [1..n -> FanConfigs] } : n \in 0..MaxModels }

\* main.py 33-37: SendPromptThread takes any list; these repeat one name
SameNameLists ==
    UNION { { [i \in 1..n |-> Endpoint(i, NameOf(1), c[i][1], c[i][2], c[i][3])] :
                c \in [1..n -> FanConfigs] } : n \in 2..MaxModels }

\* main.py 33-37, prompt_improver.py 226: the same record dispatched again
\* by the same ModelHandler
RepeatLists ==
    UNION { { [i \in 1..n |-> Endpoint(1, NameOf(1), c[1], c[2], c[3])] :
                c \in FanConfigs } : n \in 2..MaxModels }

FanEnvironments == { [n \in {KeyVar} |-> Secret], [n \in {} |-> Secret] }

\* main.py 596, 657: no thread yet, the send button enabled, nothing shown
NoWindow ==
    [send_button |-> TRUE, batch |-> 0, handled |-> 0, rows |-> 0, closed |-> FALSE]

\* db.py 39-131: the four tables, empty, and their AUTOINCREMENT counters
EmptyDb ==
    [prompts  |-> << >>, prompt_seq |-> 0,
     models   |-> << >>, model_seq  |-> 0,
     results  |-> << >>, result_seq |-> 0,
     settings |-> << >>]

NoCall ==
    [exc |-> "none", msg |-> << >>, variant |-> "generic", req |-> NoRequest]

InitCommon ==
    /\ pc = "loop"
    /\ idx = 1
    /\ attempt = 0
    /\ call = NoCall
    /\ ret = Return(EmptyPayload)
    /\ outcome = Returned(None)
    /\ results = << >>
    /\ delivered = << >>
    /\ events = << >>
    /\ win = NoWindow
    /\ db = EmptyDb
    /\ calls = << >>

\* a dispatch over up to MaxModels endpoints, by either fan-out
Init ==
    /\ impl \in {"handler", "thread"}
    /\ models \in IF impl = "handler" THEN DbLists
                 ELSE DbLists \cup SameNameLists \cup RepeatLists
    /\ environ \in FanEnvironments
    /\ max_retries = DefaultMaxRetries
    /\ cbmode \in IF impl = "handler"
                  THEN {"none", "ok", "raise_on_response", "raise_always"}
                  ELSE {"ok"}
    /\ InitCommon

Next ==
    \/ BeginEndpoint
    \/ PostStep(FanOutcomes)
    \/ ParseStep
    \/ Deliver
    \/ Finish

Spec == Init /\ [][Next]_vars

Secret2 == <<"sk-2">>

\* os.environ with API_KEY not set, set, set to another value
ChangingEnvironments ==
    { [n \in {} |-> Secret], [n \in {KeyVar} |-> Secret], [n \in {KeyVar} |-> Secret2] }

\* models.py 44 reads os.environ at every call; between two dispatches the
\* process environment is changed (a variable set, changed or removed)
ChangeEnv ==
    /\ pc = "loop"
    /\ idx <= Len(models)
    /\ environ' \in ChangingEnvironments \ {environ}
    /\ UNCHANGED <<win, db, calls, impl, models, max_retries, cbmode, pc, idx, attempt, call, ret,
                   outcome, results, delivered, events>>

EnvOutcomes == { Ok200, Timeout }

\* a fan-out during which the environment changes between the dispatches
InitEnv ==
    /\ impl \in {"handler", "thread"}
    /\ models \in DbLists
    /\ environ \in ChangingEnvironments
    /\ max_retries = DefaultMaxRetries
    /\ cbmode = "ok"
    /\ InitCommon

NextEnv ==
    \/ BeginEndpoint
    \/ PostStep(EnvOutcomes)
    \/ ParseStep
    \/ Deliver
    \/ Finish
    \/ ChangeEnv

SpecEnv == InitEnv /\ [][NextEnv]_vars

\* a dispatch to one endpoint, over every configuration and environment
InitOne ==
    /\ impl \in {"handler", "thread"}
    /\ models \in { <<m>> : m \in AllEndpoints }
    /\ environ \in Environments
    /\ max_retries = DefaultMaxRetries
    /\ cbmode = "ok"
    /\ InitCommon

NextOne ==
    \/ BeginEndpoint
    \/ PostStep(OneOutcomes)
    \/ ParseStep
    \/ Deliver
    \/ Finish

SpecOne == InitOne /\ [][NextOne]_vars

\* one call of NetworkClient.post, for every max_retries up to the bound
InitPost ==
    /\ impl = "post"
    /\ models = << >>
    /\ environ = [n \in {} |-> Secret]
    /\ max_retries \in 0..MaxRetries
    /\ cbmode = "none"
    /\ pc = "post"
    /\ idx = 0
    /\ attempt = 0
    /\ call = [NoCall EXCEPT !.req.url = ApiUrl]
    /\ ret = Return(EmptyPayload)
    /\ outcome = Returned(None)
    /\ results = << >>
    /\ delivered = << >>
    /\ events = << >>
    /\ win = NoWindow
    /\ db = EmptyDb
    /\ calls = << >>

NextPost == PostStep(Outcomes)

SpecPost == InitPost /\ [][NextPost]_vars

\* provider tags: one keyword, several keywords, none, mixed case
BuildTags ==
    { <<"OpenRouter">>, <<"openai", "via", "OpenRouter">>, <<"OpenAI">>,
      <<"chat", "GPT", "4">>, <<"DeepSeek", "gpt">>, <<"DeepSeek">>,
      <<"Groq", "deepseek">>, <<"Groq">>, <<" ", "groq", " ">>,
      <<"custom">>, <<"open", "router">>, << >> }

\* configured URLs: another host, openrouter.ai with a model path, with the
\* canonical path, with something after the canonical path, in capitals,
\* padded with blanks, the bare host
BuildUrls ==
    { ApiUrl, BrowseUrl, CanonicalUrl, CanonicalUrl \o <<"/">>,
      <<"https:", "/", "/", "OPENROUTER.AI", "/", "x", "/", "y">>,
      <<" ">> \o BrowseUrl \o <<" ">>,
      <<"\t">> \o ApiUrl \o <<" ">>,
      <<" ">> \o CanonicalUrl \o <<"\n">>,
      <<"https:", "/", "/", "openrouter.ai">> }

BuildEndpoints ==
    { Endpoint(1, <<"a">>, u, KeyVar, Some(t)) : u \in BuildUrls, t \in BuildTags }

BuildOutcomes == { Ok200, Timeout }

\* a dispatch to one endpoint whose credential is set, over every tag and URL
InitBuild ==
    /\ impl \in {"handler", "thread"}
    /\ models \in { <<m>> : m \in BuildEndpoints }
    /\ environ = [n \in {KeyVar} |-> Secret]
    /\ max_retries = DefaultMaxRetries
    /\ cbmode = "ok"
    /\ InitCommon

NextBuild ==
    \/ BeginEndpoint
    \/ PostStep(BuildOutcomes)
    \/ ParseStep
    \/ Deliver
    \/ Finish

SpecBuild == InitBuild /\ [][NextBuild]_vars

-----------------------------------------------------------------------------
(* db.py: Database.  A table is the sequence of its rows in rowid order. *)

\* the position of a name in the order of ORDER BY name
NameRank(name) ==
    CASE name = <<"a">> -> 1 [] name = <<"b">> -> 2 [] name = <<"c">> -> 3 [] OTHER -> 4

\* ORDER BY name of rows whose names differ (models.name is UNIQUE)
RECURSIVE OrderByName(_)
OrderByName(t) ==
    IF t = << >> THEN << >>
    ELSE LET k == CHOOSE k \in DOMAIN t :
                     \A j \in DOMAIN t : NameRank(t[k].name) <= NameRank(t[j].name)
         IN  <<t[k]>> \o OrderByName([j \in 1..(Len(t) - 1) |->
                                         IF j < k THEN t[j] ELSE t[j + 1]])

\* db.py 357-385: get_models
get_models(d, active_only) ==
    OrderByName(IF active_only
                THEN SelectSeq(d.models, LAMBDA r : r.is_active = 1)
                ELSE d.models)

\* what a Database method did: the database after it and what it returned,
\* or the exception it raised (the statement is rolled back)
DbReturn(d, v) == [db |-> d, exc |-> "none", val |-> v]

DbRaise(d, kind) == [db |-> d, exc |-> kind, val |-> None]

\* every row of t but those at the positions in gone
RECURSIVE Without(_, _)
Without(t, gone) ==
    IF t = << >> THEN << >>
    ELSE LET n == Len(t)
             front == Without(SubSeq(t, 1, n - 1), gone)
         IN  IF n \in gone THEN front ELSE Append(front, t[n])

\* INSERT OR REPLACE appends without deleting the row of the same key
set_settingInsertOnly(d, key, value) ==
    DbReturn([d EXCEPT !.settings = Append(d.settings, [key |-> key, value |-> value])],
             TRUE)

\* db.py 668-689: INSERT OR REPLACE INTO settings; key is UNIQUE, so a row
\* with the same key is deleted and the new row gets a new rowid
set_setting(d, key, value) ==
    LET same == { k \in DOMAIN d.settings : d.settings[k].key = key }
    IN  DbReturn([d EXCEPT !.settings = Append(Without(d.settings, same),
                                                [key |-> key, value |-> value])],
                 TRUE)

\* db.py 691-712: row[0] if row and row[0] is not None else default
get_setting(d, key, default) ==
    LET rows == SelectSeq(d.settings, LAMBDA r : r.key = key)
    IN  IF rows # << >> /\ rows[1].value # None THEN rows[1].value ELSE default

\* db.py 729-745: DELETE FROM settings WHERE key = ?; rowcount > 0
delete_setting(d, key) ==
    LET same == { k \in DOMAIN d.settings : d.settings[k].key = key }
    IN  DbReturn([d EXCEPT !.settings = Without(d.settings, same)], same # {})

\* the largest rowid of table t, 0 for an empty table
MaxId(t) == IF t = << >> THEN 0 ELSE t[Len(t)].id

\* the table is declared without AUTOINCREMENT: the id after the largest
\* rowid present is given, so the id of a deleted last row is given again
add_promptReusingIds(d, prompt, tags) ==
    IF prompt = None
    THEN DbRaise(d, "IntegrityError")
    ELSE LET id == MaxId(d.prompts) + 1
         IN  DbReturn([d EXCEPT !.prompts = Append(@, [id |-> id, prompt |-> prompt[1],
                                                        tags |-> tags]),
                                !.prompt_seq = id],
                      id)

\* db.py 133-154: INSERT INTO prompts; id is INTEGER PRIMARY KEY
\* AUTOINCREMENT (db.py 45-52): one more than the largest id ever given;
\* prompt is NOT NULL.  lastrowid is returned.
add_prompt(d, prompt, tags) ==
    IF prompt = None
    THEN DbRaise(d, "IntegrityError")
    ELSE LET id == d.prompt_seq + 1
         IN  DbReturn([d EXCEPT !.prompts = Append(@, [id |-> id, prompt |-> prompt[1],
                                                        tags |-> tags]),
                                !.prompt_seq = id],
                      id)

\* db.py 186-206: dict(row) if row else None
get_prompt_by_id(d, prompt_id) ==
    LET rows == SelectSeq(d.prompts, LAMBDA r : r.id = prompt_id)
    IN  IF rows # << >> THEN Some(rows[1]) ELSE None

\* db.py 269-308: only the arguments that are not None are written
update_prompt(d, prompt_id, prompt, tags) ==
    IF prompt = None /\ tags = None
    THEN DbReturn(d, FALSE)
    ELSE DbReturn([d EXCEPT !.prompts =
                      [k \in DOMAIN @ |->
                          IF @[k].id = prompt_id
                          THEN [@[k] EXCEPT !.prompt = IF prompt = None THEN @ ELSE prompt[1],
                                            !.tags = IF tags = None THEN @ ELSE tags]
                          ELSE @[k]]],
                  \E k \in DOMAIN d.prompts : d.prompts[k].id = prompt_id)

\* db.py 310-326
delete_prompt(d, prompt_id) ==
    LET same == { k \in DOMAIN d.prompts : d.prompts[k].id = prompt_id }
    IN  DbReturn([d EXCEPT !.prompts = Without(d.prompts, same)], same # {})

\* db.py 330-355: INSERT INTO models; name is UNIQUE, is_active is checked
\* to be 0 or 1, id is AUTOINCREMENT (db.py 62-73)
add_model(d, name, api_url, api_id, model_type, is_active) ==
    IF \/ \E k \in DOMAIN d.models : d.models[k].name = name
       \/ is_active \notin {0, 1}
    THEN DbRaise(d, "IntegrityError")
    ELSE LET id == d.model_seq + 1
         IN  DbReturn([d EXCEPT !.models = Append(@, [Endpoint(id, name, api_url, api_id,
                                                                model_type)
                                                       EXCEPT !.is_active = is_active]),
                               !.model_seq = id],
                      id)

\* is_active is not written
update_modelKeepingActive(d, model_id, name, is_active) ==
    IF name = None /\ is_active = None
    THEN DbReturn(d, FALSE)
    ELSE LET hit == { k \in DOMAIN d.models : d.models[k].id = model_id }
             new == [k \in DOMAIN d.models |->
                        IF k \in hit
                        THEN [d.models[k] EXCEPT !.name = IF name = None THEN @ ELSE name[1]]
                        ELSE d.models[k]]
         IN  IF \E j, k \in DOMAIN new : j # k /\ new[j].name = new[k].name
             THEN DbRaise(d, "IntegrityError")
             ELSE DbReturn([d EXCEPT !.models = new], hit # {})

\* db.py 409-466: update_model, for the columns name and is_active; only
\* the arguments that are not None are written; the constraints of the
\* table are checked for the rows written
update_model(d, model_id, name, is_active) ==
    IF name = None /\ is_active = None
    THEN DbReturn(d, FALSE)
    ELSE LET hit == { k \in DOMAIN d.models : d.models[k].id = model_id }
             new == [k \in DOMAIN d.models |->
                        IF k \in hit
                        THEN [d.models[k] EXCEPT
                                 !.name = IF name = None THEN @ ELSE name[1],
                                 !.is_active = IF is_active = None THEN @ ELSE is_active[1]]
                        ELSE d.models[k]]
         IN  IF \/ \E j, k \in DOMAIN new : j # k /\ new[j].name = new[k].name
                \/ \E k \in hit : new[k].is_active \notin {0, 1}
             THEN DbRaise(d, "IntegrityError")
             ELSE DbReturn([d EXCEPT !.models = new], hit # {})

\* db.py 468-479
set_model_active(d, model_id, is_active) == update_model(d, model_id, None, Some(is_active))

\* db.py 506-522
delete_model(d, model_id) ==
    LET same == { k \in DOMAIN d.models : d.models[k].id = model_id }
    IN  DbReturn([d EXCEPT !.models = Without(d.models, same)], same # {})

\* models.py 57-64: what send_prompt_to_all_active dispatches to
get_active_models(d) == get_models(d, TRUE)

\* a plain INSERT into a table without the unique index on
\* (prompt_id, model_id)
save_resultInsertOnly(d, prompt_id, model_id, response) ==
    IF response = None
    THEN DbRaise(d, "IntegrityError")
    ELSE LET id == d.result_seq + 1
         IN  DbReturn([d EXCEPT !.results = Append(d.results,
                                       [id |-> id, prompt_id |-> prompt_id,
                                        model_id |-> model_id, response |-> response[1]]),
                               !.result_seq = id],
                      id)

\* db.py 526-551: INSERT OR REPLACE INTO results; (prompt_id, model_id) has a
\* unique index (db.py 110-113), so the row of the same pair is deleted;
\* response is NOT NULL; id is AUTOINCREMENT.  lastrowid is returned.  The
\* foreign keys are not enforced (no PRAGMA foreign_keys).
save_result(d, prompt_id, model_id, response) ==
    IF response = None
    THEN DbRaise(d, "IntegrityError")
    ELSE LET id   == d.result_seq + 1
             same == { k \in DOMAIN d.results :
                          /\ d.results[k].prompt_id = prompt_id
                          /\ d.results[k].model_id = model_id }
         IN  DbReturn([d EXCEPT !.results = Append(Without(d.results, same),
                                       [id |-> id, prompt_id |-> prompt_id,
                                        model_id |-> model_id, response |-> response[1]]),
                               !.result_seq = id],
                      id)

\* s[::-1]
Reverse(t) == [k \in DOMAIN t |-> t[Len(t) + 1 - k]]

\* db.py 553-599: get_results with its default order, saved_at DESC: the
\* rows saved later come first
get_results(d, prompt_id, model_id) ==
    Reverse(SelectSeq(d.results,
                      LAMBDA r : /\ (prompt_id # None => r.prompt_id = prompt_id[1])
                                 /\ (model_id # None => r.model_id = model_id[1])))

\* db.py 648-664
delete_result(d, result_id) ==
    LET same == { k \in DOMAIN d.results : d.results[k].id = result_id }
    IN  DbReturn([d EXCEPT !.results = Without(d.results, same)], same # {})

-----------------------------------------------------------------------------
(* main.py: MainWindow.send_prompt and the signals of SendPromptThread *)

\* the signals the worker thread has emitted, in order of emission
Signals == SelectSeq(events, LAMBDA ev : ev.e \in {"cb", "finished"})

\* SendPromptThread.run is between its start and its last statement
ThreadRunning == pc \in {"loop", "post", "parse", "deliver"}

\* what the user typed into prompt_edit, one token a character
PromptTexts == { << >>, <<" ", " ">>, <<" ", "h", "i">>, <<"h", "e", "y">> }

Called(op, args, val) == [op |-> op, args |-> args, exc |-> "none", val |-> val]

\* main.py 852-902 without line 888: the button stays enabled
SendPromptKeepingButton ==
    /\ ~win.closed
    /\ win.send_button
    /\ \E text \in PromptTexts :
         LET prompt_text   == Strip(text)
             active_models == get_models(db, TRUE)
         IN  IF prompt_text = << >> \/ Len(prompt_text) < 3 \/ active_models = << >>
             THEN /\ calls' = <<Called("send_prompt", text, <<"warning">>)>>
                  /\ UNCHANGED <<models, pc, idx, attempt, call, ret, outcome,
                                 delivered, events, win>>
             ELSE /\ calls' = <<Called("send_prompt", text, <<"started">>)>>
                  /\ win' = [win EXCEPT !.rows = 0, !.handled = 0,
                                        !.batch = 1 - @]
                  /\ models' = active_models
                  /\ pc' = "loop"
                  /\ idx' = 1
                  /\ attempt' = 0
                  /\ call' = NoCall
                  /\ ret' = Return(EmptyPayload)
                  /\ outcome' = Returned(None)
                  /\ delivered' = << >>
                  /\ events' = << >>
    /\ UNCHANGED <<impl, environ, max_retries, cbmode, results, db>>

\* main.py 852-902: a click on the send button (a disabled button emits no
\* clicked signal): validation, new_request, the button disabled, a new
\* SendPromptThread over get_models(active_only=True) started
SendPrompt ==
    /\ ~win.closed
    /\ win.send_button
    /\ \E text \in PromptTexts :
         LET prompt_text   == Strip(text)
             active_models == get_models(db, TRUE)
         IN  IF prompt_text = << >> \/ Len(prompt_text) < 3 \/ active_models = << >>
             THEN /\ calls' = <<Called("send_prompt", text, <<"warning">>)>>
                  /\ UNCHANGED <<models, pc, idx, attempt, call, ret, outcome,
                                 delivered, events, win>>
             ELSE /\ calls' = <<Called("send_prompt", text, <<"started">>)>>
                  /\ win' = [win EXCEPT !.send_button = FALSE, !.rows = 0,
                                        !.handled = 0, !.batch = 1 - @]
                  /\ models' = active_models
                  /\ pc' = "loop"
                  /\ idx' = 1
                  /\ attempt' = 0
                  /\ call' = NoCall
                  /\ ret' = Return(EmptyPayload)
                  /\ outcome' = Returned(None)
                  /\ delivered' = << >>
                  /\ events' = << >>
    /\ UNCHANGED <<impl, environ, max_retries, cbmode, results, db>>

\* main.py 904-943: the slot of result_received, run by the main thread for
\* the oldest signal not handled yet: one more row in the results table
OnResultReceived ==
    /\ ~win.closed
    /\ win.handled < Len(Signals)
    /\ Signals[win.handled + 1].e = "cb"
    /\ win' = [win EXCEPT !.handled = @ + 1, !.rows = @ + 1]
    /\ UNCHANGED <<impl, models, environ, max_retries, cbmode, pc, idx, attempt,
                   call, ret, outcome, results, delivered, events, db, calls>>

\* main.py 945-948: the slot of finished
OnSendFinished ==
    /\ ~win.closed
    /\ win.handled < Len(Signals)
    /\ Signals[win.handled + 1].e = "finished"
    /\ win' = [win EXCEPT !.handled = @ + 1, !.send_button = TRUE]
    /\ UNCHANGED <<impl, models, environ, max_retries, cbmode, pc, idx, attempt,
                   call, ret, outcome, results, delivered, events, db, calls>>

\* main.py 1299-1307: closeEvent terminates a running thread and waits for it
CloseEvent ==
    /\ ~win.closed
    /\ win' = [win EXCEPT !.closed = TRUE]
    /\ pc' = IF ThreadRunning THEN "terminated" ELSE pc
    /\ UNCHANGED <<impl, models, environ, max_retries, cbmode, idx, attempt,
                   call, ret, outcome, results, delivered, events, db, calls>>

\* the endpoint configurations of the models table of the window runs
WindowConfigs ==
    << <<ApiUrl, KeyVar, Some(<<"openai">>)>>, <<BrowseUrl, KeyVar, Some(<<"OpenRouter">>)>> >>

\* a models row: id, name, configuration, is_active
ModelRow(id, name, c, active) ==
    [Endpoint(id, name, c[1], c[2], c[3]) EXCEPT !.is_active = active]

\* models tables of up to MaxModels rows, active or not, names in either
\* order, the rows of one table alternating between the two configurations
WindowTables ==
    UNION { { [i \in 1..n |-> ModelRow(i, NameOf(IF swap THEN n + 1 - i ELSE i),
                                        WindowConfigs[1 + ((i + first) % 2)], f[i])] :
                first \in {0, 1}, f \in [1..n -> {0, 1}], swap \in BOOLEAN } : n \in 0..MaxModels }

WindowOutcomes == { Ok200, Timeout }

\* the main window after construction, over a database holding some models
InitWindow ==
    /\ impl = "thread"
    /\ models = << >>
    /\ environ = [n \in {KeyVar} |-> Secret]
    /\ max_retries = DefaultMaxRetries
    /\ cbmode = "ok"
    /\ pc = "idle"
    /\ idx = 1
    /\ attempt = 0
    /\ call = NoCall
    /\ ret = Return(EmptyPayload)
    /\ outcome = Returned(None)
    /\ results = << >>
    /\ delivered = << >>
    /\ events = << >>
    /\ win = NoWindow
    /\ db \in { [EmptyDb EXCEPT !.models = t, !.model_seq = Len(t)] : t \in WindowTables }
    /\ calls = << >>

NextWindow ==
    \/ SendPrompt
    \/ BeginEndpoint
    \/ PostStep(WindowOutcomes)
    \/ ParseStep
    \/ Deliver
    \/ Finish
    \/ OnResultReceived
    \/ OnSendFinished
    \/ CloseEvent

SpecWindow == InitWindow /\ [][NextWindow]_vars

\* a started QThread is scheduled until run returns (every request has a
\* timeout and the retries are bounded), and the event loop of the main
\* thread runs the slot of every queued signal; clicking and closing are up
\* to the user
ThreadStep ==
    BeginEndpoint \/ PostStep(WindowOutcomes) \/ ParseStep \/ Deliver \/ Finish

SpecWindowFair ==
    /\ SpecWindow
    /\ WF_vars(ThreadStep)
    /\ WF_vars(OnResultReceived)
    /\ WF_vars(OnSendFinished)

-----------------------------------------------------------------------------
(* Runs of calls on one Database *)

SettingKeys == { <<"theme">>, <<"font_size">> }

\* NULL, the empty string, two texts
SettingValues == { None, Some(<< >>), Some(<<"dark">>), Some(<<"light">>) }

Defaults == { None, Some(<<"dflt">>) }

\* the call is recorded with what it returned or raised
Record(op, args, r) ==
    calls' = Append(calls, [op |-> op, args |-> args, exc |-> r.exc, val |-> r.val])

\* nothing of the dispatch layer or of the window runs
Idle ==
    /\ impl = "db"
    /\ models = << >>
    /\ environ = [n \in {} |-> Secret]
    /\ max_retries = DefaultMaxRetries
    /\ cbmode = "none"
    /\ pc = "idle"
    /\ idx = 1
    /\ attempt = 0
    /\ call = NoCall
    /\ ret = Return(EmptyPayload)
    /\ outcome = Returned(None)
    /\ results = << >>
    /\ delivered = << >>
    /\ events = << >>
    /\ win = NoWindow

SetSetting ==
    /\ Len(calls) < MaxCalls
    /\ \E key \in SettingKeys, value \in SettingValues :
         LET r == set_setting(db, key, value)
         IN  db' = r.db /\ Record("set_setting", <<key, value>>, r)
    /\ UNCHANGED <<impl, models, environ, max_retries, cbmode, pc, idx, attempt,
                   call, ret, outcome, results, delivered, events, win>>

GetSetting ==
    /\ Len(calls) < MaxCalls
    /\ \E key \in SettingKeys, default \in Defaults :
         Record("get_setting", <<key, default>>,
                DbReturn(db, get_setting(db, key, default)))
    /\ UNCHANGED <<impl, models, environ, max_retries, cbmode, pc, idx, attempt,
                   call, ret, outcome, results, delivered, events, win, db>>

DeleteSetting ==
    /\ Len(calls) < MaxCalls
    /\ \E key \in SettingKeys :
         LET r == delete_setting(db, key)
         IN  db' = r.db /\ Record("delete_setting", <<key>>, r)
    /\ UNCHANGED <<impl, models, environ, max_retries, cbmode, pc, idx, attempt,
                   call, ret, outcome, results, delivered, events, win>>

\* the texts given to add_prompt: a text, the empty string, None
NewPrompts == { Some(<<"first">>), Some(<< >>), None }

\* the ids given so far, and one that was never given
KnownPromptIds == 1..(db.prompt_seq + 1)

AddPrompt ==
    /\ Len(calls) < MaxCalls
    /\ \E prompt \in NewPrompts :
         LET r == add_prompt(db, prompt, None)
         IN  db' = r.db /\ Record("add_prompt", <<prompt>>, r)
    /\ UNCHANGED <<impl, models, environ, max_retries, cbmode, pc, idx, attempt,
                   call, ret, outcome, results, delivered, events, win>>

GetPromptById ==
    /\ Len(calls) < MaxCalls
    /\ \E prompt_id \in KnownPromptIds :
         Record("get_prompt_by_id", <<prompt_id>>,
                DbReturn(db, get_prompt_by_id(db, prompt_id)))
    /\ UNCHANGED <<impl, models, environ, max_retries, cbmode, pc, idx, attempt,
                   call, ret, outcome, results, delivered, events, win, db>>

UpdatePrompt ==
    /\ Len(calls) < MaxCalls
    /\ \E prompt_id \in KnownPromptIds,
          a \in { <<Some(<<"edited">>), None>>, <<None, Some(<<"tag">>)>>, <<None, None>> } :
         LET r == update_prompt(db, prompt_id, a[1], a[2])
         IN  db' = r.db /\ Record("update_prompt", <<prompt_id, a[1], a[2]>>, r)
    /\ UNCHANGED <<impl, models, environ, max_retries, cbmode, pc, idx, attempt,
                   call, ret, outcome, results, delivered, events, win>>

DeletePrompt ==
    /\ Len(calls) < MaxCalls
    /\ \E prompt_id \in KnownPromptIds :
         LET r == delete_prompt(db, prompt_id)
         IN  db' = r.db /\ Record("delete_prompt", <<prompt_id>>, r)
    /\ UNCHANGED <<impl, models, environ, max_retries, cbmode, pc, idx, attempt,
                   call, ret, outcome, results, delivered, events, win>>

NextPrompts ==
    \/ AddPrompt
    \/ GetPromptById
    \/ UpdatePrompt
    \/ DeletePrompt

\* the ids of the models table given so far
KnownModelIds == 1..db.model_seq

AddModel ==
    /\ Len(calls) < MaxCalls
    /\ \E name \in {NameOf(1), NameOf(2)}, is_active \in {0, 1, 2} :
         LET r == add_model(db, name, ApiUrl, KeyVar, Some(<<"openai">>), is_active)
         IN  db' = r.db /\ Record("add_model", <<name, is_active>>, r)
    /\ UNCHANGED <<impl, models, environ, max_retries, cbmode, pc, idx, attempt,
                   call, ret, outcome, results, delivered, events, win>>

UpdateModel ==
    /\ Len(calls) < MaxCalls
    /\ \E model_id \in KnownModelIds,
          a \in { <<Some(NameOf(2)), None>>, <<Some(NameOf(3)), Some(0)>>, <<None, None>> } :
         LET r == update_model(db, model_id, a[1], a[2])
         IN  db' = r.db /\ Record("update_model", <<model_id, a[1], a[2]>>, r)
    /\ UNCHANGED <<impl, models, environ, max_retries, cbmode, pc, idx, attempt,
                   call, ret, outcome, results, delivered, events, win>>

SetModelActive ==
    /\ Len(calls) < MaxCalls
    /\ \E model_id \in KnownModelIds, is_active \in {0, 1} :
         LET r == set_model_active(db, model_id, is_active)
         IN  db' = r.db /\ Record("set_model_active", <<model_id, None, Some(is_active)>>, r)
    /\ UNCHANGED <<impl, models, environ, max_retries, cbmode, pc, idx, attempt,
                   call, ret, outcome, results, delivered, events, win>>

DeleteModel ==
    /\ Len(calls) < MaxCalls
    /\ \E model_id \in KnownModelIds :
         LET r == delete_model(db, model_id)
         IN  db' = r.db /\ Record("delete_model", <<model_id>>, r)
    /\ UNCHANGED <<impl, models, environ, max_retries, cbmode, pc, idx, attempt,
                   call, ret, outcome, results, delivered, events, win>>

GetModels ==
    /\ Len(calls) < MaxCalls
    /\ Record("get_models", <<TRUE>>, DbReturn(db, get_models(db, TRUE)))
    /\ UNCHANGED <<impl, models, environ, max_retries, cbmode, pc, idx, attempt,
                   call, ret, outcome, results, delivered, events, win, db>>

\* models.py 478: the list send_prompt_to_all_active is about to dispatch to
GetActiveModels ==
    /\ Len(calls) < MaxCalls
    /\ Record("get_active_models", << >>, DbReturn(db, get_active_models(db)))
    /\ UNCHANGED <<impl, models, environ, max_retries, cbmode, pc, idx, attempt,
                   call, ret, outcome, results, delivered, events, win, db>>

NextModels ==
    \/ AddModel
    \/ UpdateModel
    \/ SetModelActive
    \/ DeleteModel
    \/ GetModels
    \/ GetActiveModels

Responses == { <<"answer">>, <<"other", "answer">> }

\* prompt id, model id, response: every pair of two prompts and two models
\* with two texts, and one call without a response
SaveArgs ==
    { <<p, m, Some(r)>> : p \in {1, 2}, m \in {1, 2}, r \in Responses } \cup { <<1, 1, None>> }

SaveResult ==
    /\ Len(calls) < MaxCalls
    /\ \E a \in SaveArgs :
         LET r == save_result(db, a[1], a[2], a[3])
         IN  db' = r.db /\ Record("save_result", a, r)
    /\ UNCHANGED <<impl, models, environ, max_retries, cbmode, pc, idx, attempt,
                   call, ret, outcome, results, delivered, events, win>>

GetResults ==
    /\ Len(calls) < MaxCalls
    /\ \E a \in { <<Some(1), None>>, <<Some(2), Some(1)>>, <<None, None>> } :
         Record("get_results", a, DbReturn(db, get_results(db, a[1], a[2])))
    /\ UNCHANGED <<impl, models, environ, max_retries, cbmode, pc, idx, attempt,
                   call, ret, outcome, results, delivered, events, win, db>>

DeleteResult ==
    /\ Len(calls) < MaxCalls
    /\ \E result_id \in 1..db.result_seq :
         LET r == delete_result(db, result_id)
         IN  db' = r.db /\ Record("delete_result", <<result_id>>, r)
    /\ UNCHANGED <<impl, models, environ, max_retries, cbmode, pc, idx, attempt,
                   call, ret, outcome, results, delivered, events, win>>

NextResults ==
    \/ SaveResult
    \/ GetResults
    \/ DeleteResult

\* a new database file: Database() creates the empty tables
InitDb ==
    /\ Idle
    /\ db = EmptyDb
    /\ calls = << >>

NextSettings ==
    \/ SetSetting
    \/ GetSetting
    \/ DeleteSetting

SpecSettings == InitDb /\ [][NextSettings]_vars

SpecPrompts == InitDb /\ [][NextPrompts]_vars

SpecModels == InitDb /\ [][NextModels]_vars

SpecResults == InitDb /\ [][NextResults]_vars

\* the ids of the rows of table t
IdsOf(t) == { t[k].id : k \in DOMAIN t }

\* main.py: a result is saved for a prompt and a model that are stored
SaveStoredResult ==
    /\ Len(calls) < MaxCalls
    /\ \E prompt_id \in IdsOf(db.prompts), model_id \in IdsOf(db.models), r \in Responses :
         LET v == save_result(db, prompt_id, model_id, Some(r))
         IN  db' = v.db /\ Record("save_result", <<prompt_id, model_id, Some(r)>>, v)
    /\ UNCHANGED <<impl, models, environ, max_retries, cbmode, pc, idx, attempt,
                   call, ret, outcome, results, delivered, events, win>>

\* prompts, models and their results in one database
NextCascade ==
    \/ AddPrompt
    \/ AddModel
    \/ SaveStoredResult
    \/ DeletePrompt
    \/ DeleteModel

SpecCascade == InitDb /\ [][NextCascade]_vars

-----------------------------------------------------------------------------
(* prompt_improver.py: PromptImprover.  The answer of the model is a text
   of tokens; a JSON object is written { key : value , key : value },
   the value "" being the empty string. *)

\* the position of the first token of s that is in W, 0 if there is none
FirstIn(s, W) ==
    IF \E k \in DOMAIN s : s[k] \in W
    THEN CHOOSE k \in DOMAIN s : s[k] \in W /\ \A j \in 1..(k - 1) : s[j] \notin W
    ELSE 0

\* s[k:]
From(s, k) == IF k > Len(s) THEN << >> ELSE SubSeq(s, k, Len(s))

\* prompt_improver.py 100 and json.loads: the tokens between the first
\* brace and the brace that closes it, if they are key : value pairs
JsonInner(text) ==
    LET a == FirstIn(text, {"{"})
        b == FirstIn(From(text, a + 1), {"}"})
    IN  IF a = 0 \/ b = 0 THEN <<"?">> ELSE SubSeq(text, a + 1, a + b - 1)

JsonValid(inner) ==
    /\ inner = << >> \/ Len(inner) % 4 = 3
    /\ \A k \in DOMAIN inner :
          /\ k % 4 = 1 => inner[k] \notin {":", ",", "{", "}"}
          /\ k % 4 = 2 => inner[k] = ":"
          /\ k % 4 = 3 => inner[k] \notin {":", ",", "{", "}"}
          /\ k % 4 = 0 => inner[k] = ","

\* result.get(key): None if the object has no such key
JsonGet(inner, key) ==
    LET at == { k \in DOMAIN inner : k % 4 = 1 /\ inner[k] = key }
    IN  IF at = {} THEN None
        ELSE LET k == CHOOSE k \in at : \A j \in at : j <= k
             IN  Some(IF inner[k + 2] = "" THEN << >> ELSE <<inner[k + 2]>>)

\* response_text.split('\n'), each line stripped, the empty ones dropped
RECURSIVE Lines(_)
Lines(s) ==
    LET k    == FirstIn(s, {"\n"})
        head == Strip(IF k = 0 THEN s ELSE SubSeq(s, 1, k - 1))
        rest == IF k = 0 THEN << >> ELSE Lines(From(s, k + 1))
    IN  (IF head = << >> THEN << >> ELSE <<head>>) \o rest

\* re.search(keyword [\s:]* ["']? ([^"']+) ["']?): what follows the first
\* keyword, blanks and colons skipped, up to a quote; None if no match
AfterKeyword(text, keywords) ==
    LET k == FirstIn(Lower(text), keywords)
    IN  IF k = 0 THEN None
        ELSE LET rest == From(text, k + 1)
                 skip == FirstIn([j \in DOMAIN rest |->
                                    IF IsBlankTok(rest[j]) \/ rest[j] = ":"
                                    THEN "skip" ELSE "keep"], {"keep"})
                 tail == IF skip = 0 THEN << >> ELSE From(rest, skip)
                 q    == FirstIn(tail, {"'", "\""})
                 got  == IF q = 0 THEN tail ELSE SubSeq(tail, 1, q - 1)
             IN  IF got = << >> THEN None ELSE Some(Strip(got))

\* prompt_improver.py 142-147: the first line after a line, among the first
\* five, that holds one of the keywords; the first line if none does
FirstParagraph(lines) ==
    LET marks == { k \in 1..5 : k <= Len(lines) /\
                     \E j \in DOMAIN lines[k] :
                         LowerTok(lines[k][j]) \in {"json", "{", "}", "improved", "variants"} }
        start == IF marks = {} THEN 1
                 ELSE (CHOOSE k \in marks : \A j \in marks : k <= j) + 1
    IN  IF start <= Len(lines) THEN Some(lines[start]) ELSE None

NoFields == [improved |-> None, variants |-> None, explanation |-> None]

\* prompt_improver.py 117-185: _fallback_parse.  No text of the model is as
\* long as the patterns for variants ask for (more than 10 characters after
\* "variant", 20 in quotes or in a paragraph), so no variant is found, and
\* the objects without the key improved hold neither keyword.
fallback_parse(response_text, partial_result) ==
    LET match    == AfterKeyword(response_text, {"improved"})
        lines    == Lines(response_text)
        improved == IF match # None THEN match
                    ELSE IF partial_result.improved # None THEN partial_result.improved
                    ELSE IF lines # << >> /\ FirstParagraph(lines) # None
                    THEN FirstParagraph(lines)
                    ELSE Some(Strip(response_text))
        explain  == AfterKeyword(response_text, {"explanation"})
    IN  [improved    |-> improved,
         variants    |-> Some(<< >>),
         explanation |-> IF explain # None THEN explain
                         ELSE Some(<<"The prompt was improved.">>)]

\* prompt_improver.py 76-115: _parse_response, for a text
parse_response(response_text) ==
    LET text  == Strip(response_text)
        inner == JsonInner(text)
        obj   == [improved    |-> JsonGet(inner, "improved"),
                  variants    |-> IF JsonGet(inner, "variants") = None THEN None
                                  ELSE Some(JsonGet(inner, "variants")),
                  explanation |-> JsonGet(inner, "explanation")]
    IN  IF JsonValid(inner)
        THEN IF obj.improved # None THEN obj ELSE fallback_parse(text, obj)
        ELSE fallback_parse(text, NoFields)

NoResult == [improved |-> None, variants |-> None, explanation |-> None, original |-> None]

Improved(exc, msg, val) == [exc |-> exc, msg |-> msg, val |-> val]

\* prompt_improver.py 223-244: improve_prompt after send_prompt_to_model
\* gave the outcome o.  An APIError is raised again with a prefix, any other
\* exception goes through; re.sub raises TypeError when the response is
\* None; the keys that are missing are added and an improved that is
\* missing or empty is replaced by the original.
improve_prompt(original_prompt, o) ==
    IF o.exc = "APIError"
    THEN Improved("APIError", <<"Error while requesting the improvement:">> \o o.msg, NoResult)
    ELSE IF o.exc # "none"
    THEN Improved(o.exc, o.msg, NoResult)
    ELSE IF o.val = None
    THEN Improved("TypeError", <<"expected string or bytes-like object">>, NoResult)
    ELSE LET result == parse_response(o.val[1])
         IN  Improved("none", << >>,
                      [improved    |-> IF Truthy(result.improved) THEN result.improved
                                       ELSE Some(Strip(original_prompt)),
                       variants    |-> IF result.variants = None THEN Some(<< >>)
                                       ELSE result.variants,
                       explanation |-> IF result.explanation = None
                                       THEN Some(<<"The prompt was processed.">>)
                                       ELSE result.explanation,
                       original    |-> Some(Strip(original_prompt))])

\* the prompts handed to improve_prompt: empty, blank, a text between blanks
ImprovePrompts == { << >>, <<" ", "\n">>, <<" ", "hello", " ">> }

\* the model argument: None, or a record of the models table
ImproveModels ==
    { None } \cup { Some(Endpoint(1, <<"a">>, ApiUrl, KeyVar, t)) :
                       t \in { None, Some(<<"openai">>), Some(<<"OpenRouter">>),
                               Some(<<"custom">>) } }

\* what the model answered
ImproveTexts ==
    { <<"{", "improved", ":", "better", ",", "variants", ":", "v1", ",",
        "explanation", ":", "why", "}">>,
      <<"{", "improved", ":", "better", "}">>,
      <<"{", "improved", ":", "", "}">>,
      <<"{", "variants", ":", "v1", "}">>,
      <<"{", "improved", "}">>,
      <<"plain">>,
      <<"json", "\n", "better">>,
      <<"improved", ":", " ", "better">>,
      <<" ">>,
      << >> }

ImproveOutcomes ==
    { Timeout, Http(200, CtJson, JsonBody(Choices("content_null", << >>))),
      Http(200, CtJson, JsonBody(WithError(EmptyPayload, "dict", BadKey))) }
    \cup { Http(200, CtJson, JsonBody(Choices("content", t))) : t \in ImproveTexts }

\* prompt_improver.py 189-221: improve_prompt up to send_prompt_to_model
ImproveBegin ==
    /\ pc = "idle"
    /\ \E original_prompt \in ImprovePrompts, model \in ImproveModels :
         IF Strip(original_prompt) = << >> \/ model = None
         THEN /\ calls' = <<[op |-> "improve_prompt", args |-> <<original_prompt, model>>,
                             exc |-> "ValueError", val |-> NoResult]>>
              /\ pc' = "done"
              /\ models' = models
         ELSE /\ calls' = <<[op |-> "improve_prompt", args |-> <<original_prompt, model>>,
                             exc |-> "running", val |-> NoResult]>>
              /\ pc' = "loop"
              /\ models' = model
    /\ UNCHANGED <<impl, environ, max_retries, cbmode, idx, attempt, call, ret,
                   outcome, results, delivered, events, win, db>>

\* prompt_improver.py 223-244: improve_prompt after send_prompt_to_model
ImproveEnd ==
    /\ pc = "deliver"
    /\ LET r == improve_prompt(calls[1].args[1], outcome)
       IN  calls' = <<[calls[1] EXCEPT !.exc = r.exc, !.val = r.val]>>
    /\ pc' = "done"
    /\ UNCHANGED <<impl, models, environ, max_retries, cbmode, idx, attempt, call,
                   ret, outcome, results, delivered, events, win, db>>

InitImprove ==
    /\ impl = "improver"
    /\ models = << >>
    /\ environ = [n \in {KeyVar} |-> Secret]
    /\ max_retries = DefaultMaxRetries
    /\ cbmode = "none"
    /\ pc = "idle"
    /\ idx = 1
    /\ attempt = 0
    /\ call = NoCall
    /\ ret = Return(EmptyPayload)
    /\ outcome = Returned(None)
    /\ results = << >>
    /\ delivered = << >>
    /\ events = << >>
    /\ win = NoWindow
    /\ db = EmptyDb
    /\ calls = << >>

NextImprove ==
    \/ ImproveBegin
    \/ BeginEndpoint
    \/ PostStep(ImproveOutcomes)
    \/ ParseStep
    \/ ImproveEnd

SpecImprove == InitImprove /\ [][NextImprove]_vars

-----------------------------------------------------------------------------
(* The two fan-outs, one after the other, over the same list of endpoints,
   in the same environment, the transport answering the second as it
   answered the first *)

HttpEventsOf(evs) == SelectSeq(evs, LAMBDA ev : ev.e = "http")

\* the run of send_prompt_to_all_active that was kept
Recorded == calls[1].val

\* the transport of these runs: any answer during the first run; during the
\* second, the answer the same attempt got in the first (none if the first
\* run made no such attempt)
ReplayOutcomes ==
    IF calls = << >> THEN FanOutcomes
    ELSE LET n   == Len(HttpEventsOf(events)) + 1
             old == HttpEventsOf(Recorded.events)
         IN  IF n <= Len(old) THEN { old[n].o } ELSE {}

\* models.py 465-507 has returned; main.py 897-902: a SendPromptThread is
\* started over the same list with the same prompt
RunThreadOnSame ==
    /\ impl = "handler"
    /\ pc = "done"
    /\ calls = << >>
    /\ calls' = <<[op |-> "send_prompt_to_all_active", args |-> models, exc |-> "none",
                   val |-> [events |-> events, delivered |-> delivered,
                            results |-> results]]>>
    /\ impl' = "thread"
    /\ pc' = "loop"
    /\ idx' = 1
    /\ attempt' = 0
    /\ call' = NoCall
    /\ ret' = Return(EmptyPayload)
    /\ outcome' = Returned(None)
    /\ results' = << >>
    /\ delivered' = << >>
    /\ events' = << >>
    /\ UNCHANGED <<models, environ, max_retries, cbmode, win, db>>

InitAgree ==
    /\ impl = "handler"
    /\ models \in DbLists
    /\ environ \in FanEnvironments
    /\ max_retries = DefaultMaxRetries
    /\ cbmode = "ok"
    /\ InitCommon

NextAgree ==
    \/ BeginEndpoint
    \/ PostStep(ReplayOutcomes)
    \/ ParseStep
    \/ Deliver
    \/ Finish
    \/ RunThreadOnSame

SpecAgree == InitAgree /\ [][NextAgree]_vars

-----------------------------------------------------------------------------
(* network.py: NetworkClient.get, run after NetworkClient.post on the same
   client and URL, the transport answering get as it answered post *)

\* network.py 193-197: except RequestException, which the exception of
\* raise_for_status (HTTPError) and ConnectionError are
OnRequestException(a, mr, url) ==
    IF a < mr - 1
    THEN Retry(Pow2(a))
    ELSE Raise(<<"Request error to">> \o url)

\* network.py 182-185: response.json(), {"text": response.text} if the
\* body is not JSON
GetSuccess(body) ==
    IF body.json
    THEN Return(body.data)
    ELSE Return([EmptyPayload EXCEPT !.text = Str(body.text)])

\* an error status ends get at once, as post's except HTTPError does
GetAttemptResultEndingOnStatus(a, mr, url, o) ==
    CASE o.t = "timeout" -> OnTimeout(a, mr, url)
      [] o.t = "connerr" -> OnConnectionError(a, mr, url)
      [] o.t = "reqexc"  -> Raise(<<"Request error to">> \o url)
      [] OTHER ->
            IF IsHttpError(o.status)
            THEN Raise(<<"Request error to">> \o url)
            ELSE GetSuccess(o.body)

\* network.py 171-197: the body of the loop of get for attempt a, the
\* transport answering o
GetAttemptResult(a, mr, url, o) ==
    CASE o.t = "timeout" -> OnTimeout(a, mr, url)
      [] o.t = "connerr" -> OnRequestException(a, mr, url)
      [] o.t = "reqexc"  -> OnRequestException(a, mr, url)
      [] OTHER ->
            IF IsHttpError(o.status)
            THEN OnRequestException(a, mr, url)
            ELSE GetSuccess(o.body)

\* network.py 199: the loop ended without returning or raising
GetExhausted(mr, url) ==
    Raise(<<"Request to">> \o url \o <<"failed after", NumStr(mr), "attempts">>)

\* what the transport answers in these runs: the failures, an error page
\* with a 4xx and with a 5xx status, a completion
RetryOutcomes ==
    { Timeout, ConnErr, ReqExc, Ok200,
      Http(404, CtJson, TextBody(<<"Bad", "Gateway">>)),
      Http(500, CtJson, TextBody(<<"Bad", "Gateway">>)) }

\* any answer to post; to get, the answer post got at the same attempt,
\* and any answer at an attempt post did not make
SameOutcomes ==
    IF calls = << >> THEN RetryOutcomes
    ELSE LET old == HttpEventsOf(Recorded.events)
         IN  IF attempt < Len(old) THEN { old[attempt + 1].o } ELSE RetryOutcomes

\* network.py 151-199: one pass of the retry loop of get; a backoff sleep
\* is part of the pass
GetStep(O) ==
    /\ pc = "get"
    /\ \E o \in O :
         LET r == IF attempt < max_retries
                  THEN GetAttemptResult(attempt, max_retries, call.req.url, o)
                  ELSE GetExhausted(max_retries, call.req.url)
             sent == IF attempt < max_retries
                     THEN <<HttpEvent(idx, attempt, call.req, o)>>
                     ELSE << >>
         IN  /\ ret' = r
             /\ IF r.kind = "retry"
                THEN /\ events' = events \o sent \o <<SleepEvent(idx, r.sleep)>>
                     /\ attempt' = attempt + 1
                     /\ pc' = "get"
                ELSE /\ events' = events \o sent
                     /\ attempt' = attempt
                     /\ pc' = "done"
    /\ UNCHANGED <<win, db, calls, impl, models, environ, max_retries, cbmode, idx, call, outcome,
                   results, delivered>>

\* post has returned or raised; get is called on the same client with the
\* same URL
RunGetOnSame ==
    /\ impl = "post"
    /\ pc = "done"
    /\ calls = << >>
    /\ calls' = <<[op |-> "post", args |-> call.req.url, exc |-> ret.kind,
                   val |-> [events |-> events, delivered |-> delivered,
                            results |-> results]]>>
    /\ impl' = "get"
    /\ pc' = "get"
    /\ attempt' = 0
    /\ ret' = Return(EmptyPayload)
    /\ events' = << >>
    /\ UNCHANGED <<models, environ, max_retries, cbmode, idx, call, outcome, results,
                   delivered, win, db>>

NextRetry ==
    \/ PostStep(SameOutcomes)
    \/ RunGetOnSame
    \/ GetStep(SameOutcomes)

SpecRetry == InitPost /\ [][NextRetry]_vars


-----------------------------------------------------------------------------
(* Properties of the fan-out (Spec) *)

\* text t occurs in message m
Mentions(m, t) ==
    \E k \in 0..(Len(m) - Len(t)) : SubSeq(m, k + 1, k + Len(t)) = t

IsFailure(entry) == entry.error # None /\ entry.response = None

IsSuccess(entry) == entry.error = None /\ entry.response # None

\* C1 as stated: a dispatch over N endpoints that has returned has appended N
\* entries, the i-th tagged with the i-th endpoint, and (a callback being
\* given) has handed the callback exactly N outcomes, the i-th tagged with the
\* i-th endpoint; this whatever each endpoint's outcome is and whether or not
\* names repeat.
C1_OneOutcomePerEndpoint ==
    pc = "done" =>
        /\ impl = "handler" =>
              /\ Len(results) = Len(models)
              /\ \A i \in DOMAIN results : results[i].model = models[i]
        /\ cbmode # "none" =>
              /\ Len(delivered) = Len(models)
              /\ \A i \in DOMAIN delivered :
                    delivered[i].i = i /\ delivered[i].model = models[i]

\* C2 as stated: no exception leaves send_prompt_to_all_active; an APIError
\* or any other exception raised while endpoint i is dispatched has become
\* the error of i's entry (with no response) when the loop moves on, and the
\* call returns only after every endpoint has its entry.
C2_ExceptionsBecomeOutcomes ==
    impl = "handler" =>
        /\ pc # "escaped"
        /\ (pc = "loop" /\ idx > 1 /\ outcome.exc # "none") =>
              /\ Len(results) = idx - 1
              /\ IsFailure(results[idx - 1])
        /\ pc = "done" => Len(results) = Len(models)

\* C3: the endpoints are worked on in the order of the list, one at a time:
\* nothing of endpoint i (attempt, sleep, callback) comes after anything of a
\* later endpoint, no attempt or sleep of endpoint i follows its callback, and
\* (a callback being given) when an attempt for an endpoint starts every
\* earlier endpoint's outcome has already been handed to the callback.
C3_InOrderOneAtATime ==
    /\ \A j, k \in DOMAIN events :
          (j < k /\ events[j].e # "finished" /\ events[k].e # "finished")
              => events[j].i <= events[k].i
    /\ \A j, k \in DOMAIN events :
          (j < k /\ events[j].e = "cb" /\ events[k].e \in {"http", "sleep"})
              => events[j].i < events[k].i
    /\ cbmode # "none" =>
          \A k \in DOMAIN events :
              events[k].e = "http" =>
                  \A i \in 1..(events[k].i - 1) :
                      \E j \in 1..(k - 1) : events[j].e = "cb" /\ events[j].i = i

\* endpoint 1 timed out, slept, was retried and delivered; then endpoint 2
\* was sent
C3_Witness ==
    /\ Len(events) >= 5
    /\ events[1].e = "http" /\ events[1].i = 1 /\ events[1].o = Timeout
    /\ events[2].e = "sleep" /\ events[2].i = 1
    /\ events[3].e = "http" /\ events[3].i = 1
    /\ events[4].e = "cb" /\ events[4].i = 1
    /\ events[5].e = "http" /\ events[5].i = 2

-----------------------------------------------------------------------------
(* Properties of NetworkClient.post (SpecPost) *)

IsAttempt(ev) == ev.e = "http"

Attempts == SelectSeq(events, IsAttempt)

Retryable(ev) == ev.o.t \in {"timeout", "connerr"}

GotErrorStatus(ev) ==
    ev.e = "http" /\ ev.o.t = "http" /\ 400 <= ev.o.status /\ ev.o.status < 600

LastEvent == events[Len(events)]

AllTimedOut == \A k \in DOMAIN events : events[k].e = "http" => events[k].o.t = "timeout"

IsTimeoutFailure(r) == r.kind = "raise" /\ r.msg # << >> /\ r.msg[1] = "Timeout of request to"

IsConnectionFailure(r) == r.kind = "raise" /\ r.msg # << >> /\ r.msg[1] = "Connection error to"

\* C4: a call of post of which every attempt so far timed out (and that made
\* one at least) has made attempts 0, 1, ..: attempt k followed by a sleep of
\* 2^k seconds, so each sleep is longer than the one before; it makes no more
\* than max_retries attempts; it ends right after attempt max_retries - 1,
\* with no sleep after it, raising the timeout failure.
C4_TimeoutsBackOff ==
    (AllTimedOut /\ events # << >>) =>
        /\ Len(Attempts) <= max_retries
        /\ \A k \in DOMAIN events :
              IF k % 2 = 1
              THEN events[k].e = "http" /\ events[k].n = (k - 1) \div 2
              ELSE events[k].e = "sleep" /\ events[k].n = Pow2((k - 2) \div 2)
        /\ \A j, k \in DOMAIN events :
              (j < k /\ events[j].e = "sleep" /\ events[k].e = "sleep")
                  => events[j].n < events[k].n
        /\ IF pc = "done"
           THEN /\ Len(Attempts) = max_retries
                /\ LastEvent.e = "http"
                /\ IsTimeoutFailure(ret)
           ELSE Len(Attempts) < max_retries /\ LastEvent.e = "sleep"

\* three attempts, all timed out: sleeps of 1 and 2 seconds, then the failure
C4_Witness ==
    /\ pc = "done" /\ max_retries = 3 /\ AllTimedOut
    /\ Len(events) = 5
    /\ events[2].n = 1 /\ events[4].n = 2
    /\ IsTimeoutFailure(ret)

\* C5: an attempt answered with a 4xx or 5xx status is the last thing the call
\* does: no sleep and no further attempt follows it, whatever max_retries is
\* and whichever attempt it is, and the call has failed (with an exception).
C5_ErrorStatusIsTerminal ==
    \A k \in DOMAIN events :
        GotErrorStatus(events[k]) =>
            /\ k = Len(events)
            /\ pc = "done"
            /\ ret.kind \in {"raise", "crash"}

\* a 429 at the second attempt, two attempts left unused
C5_Witness ==
    /\ pc = "done" /\ max_retries = 3
    /\ Len(events) = 3
    /\ events[1].o = Timeout
    /\ GotErrorStatus(events[3]) /\ events[3].o.status = 429 /\ events[3].n = 1

\* C6: for every sequence of answers: the attempts are numbered 0, 1, .. and
\* are at most max_retries; a sleep comes only after an attempt that timed out
\* or could not connect, lasts 2^attempt seconds and is followed by the next
\* attempt; an attempt answered in any other way ends the call; a call whose
\* last attempt timed out (could not connect) has used all max_retries
\* attempts and raises the timeout (connection) failure.
C6_RetryPolicy ==
    /\ Len(Attempts) <= max_retries
    /\ \A k \in DOMAIN Attempts : Attempts[k].n = k - 1
    /\ \A k \in DOMAIN events :
          events[k].e = "sleep" =>
              /\ k > 1
              /\ events[k - 1].e = "http"
              /\ Retryable(events[k - 1])
              /\ events[k].n = Pow2(events[k - 1].n)
              /\ (k < Len(events) => events[k + 1].e = "http")
              /\ (k = Len(events) => pc = "post")
    /\ \A k \in DOMAIN events :
          events[k].e = "http" =>
              IF k < Len(events)
              THEN Retryable(events[k]) /\ events[k + 1].e = "sleep"
              ELSE /\ pc = "done"
                   /\ Retryable(events[k]) =>
                         /\ Len(Attempts) = max_retries
                         /\ events[k].o.t = "timeout" => IsTimeoutFailure(ret)
                         /\ events[k].o.t = "connerr" => IsConnectionFailure(ret)

\* a timeout, then two connection failures: the connection failure is raised
C6_Witness ==
    /\ pc = "done" /\ max_retries = 3
    /\ Len(events) = 5
    /\ events[1].o = Timeout /\ events[3].o = ConnErr /\ events[5].o = ConnErr
    /\ events[2].n = 1 /\ events[4].n = 2
    /\ IsConnectionFailure(ret)

\* a 2xx answer that is markup by its content type or by how its body starts
IsMarkupAnswer(ev) ==
    /\ ev.e = "http" /\ ev.o.t = "http"
    /\ 200 <= ev.o.status /\ ev.o.status < 300
    /\ \/ \E k \in DOMAIN ev.o.ctype : LowerTok(ev.o.ctype[k]) = "text/html"
       \/ ev.o.body.text # << >> /\ ev.o.body.text[1] \in {"<!DOCTYPE", "<html"}

\* C16: an attempt answered with a 2xx status and markup (content type
\* text/html, or a body that starts with <!DOCTYPE or <html) is the last thing
\* the call does: post raises APIError, returns no payload, sleeps no more
\* and makes no further attempt.
C16_MarkupIsFailure ==
    \A k \in DOMAIN events :
        IsMarkupAnswer(events[k]) =>
            /\ k = Len(events)
            /\ pc = "done"
            /\ ret.kind = "raise"
            /\ ret.msg # << >> /\ ret.msg[1] = "HTML instead of JSON. URL:"

\* after a timeout, a 200 of content type text/html whose body is valid JSON
C16_Witness ==
    /\ pc = "done" /\ max_retries = 3
    /\ Len(events) = 3
    /\ events[1].o = Timeout
    /\ events[3].o = Http(200, CtHtml, JsonBody(OkPayload))
    /\ ret.kind = "raise"

\* the error kinds the specification names
SpecKind(s) ==
    CASE s \in {401, 403} -> "AuthFailure"
      [] s = 402 -> "PaymentRequired"
      [] s = 429 -> "RateLimited"
      [] OTHER -> "ProviderError"

EndedOnErrorStatus == pc = "done" /\ events # << >> /\ GotErrorStatus(LastEvent)

\* no more of the raw text than its first ErrTextLimit tokens is in the message
AtMostLimitOfText(msg, text) ==
    Len(text) > ErrTextLimit => ~Mentions(msg, SubSeq(text, 1, ErrTextLimit + 1))

\* C20 as stated: a call that ended on an error status whose JSON body has an
\* error object with a message fails with exactly that message; when the
\* body is not JSON the message holds no more than the first 500 characters
\* of the raw text.
C20_MessageIsErrorMessage ==
    EndedOnErrorStatus =>
        LET b == LastEvent.o.body
        IN  /\ (b.json /\ b.data.error.t = "dict") => ret.msg = b.data.error.v
            /\ ~b.json => AtMostLimitOfText(ret.msg, b.text)

\* C20, amended: the message is the error object's message field (a string),
\* except for status 402, where a message that mentions neither credits nor
\* payment is wrapped in the "not enough credits" notice (and still holds
\* the field's text); an error that is an object without message or a plain
\* string is rendered as text; a body that is not JSON gives a fixed notice
\* or "HTTP error <status>:" followed by the first 500 characters of the
\* text, never more.
C20_MessageFromErrorObject ==
    EndedOnErrorStatus =>
        LET b == LastEvent.o.body
            s == LastEvent.o.status
            e == b.data.error.v
        IN  /\ (b.json /\ b.data.error.t \in {"dict", "dict_nomsg", "str"}) =>
                  /\ ret.kind = "raise"
                  /\ IF s = 402 /\ ~MentionsCredits(e) /\ ~MentionsPayment(e)
                     THEN ret.msg = NotEnoughCredits(e)
                     ELSE ret.msg = e
            /\ ~b.json =>
                  /\ ret.kind = "raise"
                  /\ AtMostLimitOfText(ret.msg, b.text)
                  /\ \/ Mentions(ret.msg, CreditsUrl)
                     \/ Mentions(ret.msg, PrivacyUrl)
                     \/ ret.msg = <<"HTTP error", StatusStr(s), ":">>
                                     \o SubSeq(b.text, 1, IF Len(b.text) < ErrTextLimit
                                                          THEN Len(b.text) ELSE ErrTextLimit)

\* a 500 whose body is a text of 501 tokens: the message holds 500 of them
C20_Witness ==
    /\ EndedOnErrorStatus
    /\ LastEvent.o.status = 500
    /\ LastEvent.o.body = TextBody(LongText)
    /\ Len(ret.msg) = ErrTextLimit + 3
    /\ ret.msg[Len(ret.msg)] = "x"

\* C31: for every max_retries >= 0 and every sequence of answers, post makes
\* at most max_retries attempts and ends by returning a payload or by
\* raising APIError, never with another exception; with max_retries = 0 it
\* sends no request and raises APIError.
C31_PostReturnsOrRaisesAPIError ==
    /\ Len(Attempts) <= max_retries
    /\ pc = "done" => ret.kind \in {"return", "raise"}
    /\ (pc = "done" /\ max_retries = 0) => (events = << >> /\ ret.kind = "raise")

\* the same, the bodies whose message is null left aside
C31_ExceptForNullMessages ==
    \/ /\ pc = "done" /\ events # << >> /\ GotErrorStatus(LastEvent)
       /\ LastEvent.o.body.json
       /\ \/ LastEvent.o.body.data.error.t = "dict_null"
          \/ LastEvent.o.body.data.message.t = "null"
    \/ C31_PostReturnsOrRaisesAPIError

\* C33: a call that ended on status 402 failed with an APIError whose
\* message mentions credits or payment, whatever the body was.
C33_PaymentRequiredMentionsCredits ==
    (EndedOnErrorStatus /\ LastEvent.o.status = 402) =>
        /\ ret.kind = "raise"
        /\ MentionsCredits(ret.msg) \/ MentionsPayment(ret.msg)

\* the same for the bodies whose error object has no null message
C33_ExceptForNullMessage ==
    \/ EndedOnErrorStatus /\ LastEvent.o.body.json
          /\ LastEvent.o.body.data.error.t = "dict_null"
    \/ C33_PaymentRequiredMentionsCredits

-----------------------------------------------------------------------------
(* Properties of the dispatch to one endpoint (SpecOne) *)

TheModel == models[1]

\* the endpoint's credential variable and its value in the environment
CredName == Strip(TheModel.api_id)

CredValue == GetEnv(environ, CredName)

HasVariant == TheModel.model_type # None

\* send_prompt_to_model is over: outcome is the endpoint's outcome
Dispatched == pc \in {"deliver", "done"} \/ (pc = "loop" /\ idx > 1)

NoHttpAttempt == \A k \in DOMAIN events : events[k].e # "http"

\* C8 as stated: for an endpoint of any variant whose credential variable is
\* not set, empty or blank, no HTTP attempt is made and the dispatch fails
\* with an APIError that names the variable; and every HTTP attempt carries a
\* credential after "Bearer".
C8_NoRequestWithoutCredential ==
    /\ (HasVariant /\ CredName # << >>
        /\ (CredValue = None \/ Strip(CredValue[1]) = << >>)) =>
            /\ NoHttpAttempt
            /\ Dispatched =>
                  outcome.exc = "APIError" /\ Mentions(outcome.msg, CredName)
    /\ \A k \in DOMAIN events :
          events[k].e = "http" =>
              Len(events[k].key) > 1 /\ events[k].key[1] = "Bearer"

C10_ErrorFieldWins ==
    (Dispatched /\ HasVariant /\ ~NoHttpAttempt /\ ret.kind = "return"
     /\ ret.data.error.t # "absent") =>
        /\ outcome.exc # "none"
        /\ Mentions(outcome.msg, ret.data.error.v)

\* the text the fallback chain of C13 gives for a payload
FallbackText(p) ==
    IF p.choices.t = "content" THEN p.choices.v
    ELSE IF p.choices.t = "text" THEN p.choices.v
    ELSE IF Has(p, "text") THEN p.text.v
    ELSE IF Has(p, "response") THEN p.response.v
    ELSE Render(p)

\* C13 as stated: for the OpenAI, DeepSeek, Groq and Generic variants, a
\* payload without an error field never fails: the outcome is the content of
\* choices[0].message if there is one, else choices[0].text, else the
\* top-level text or response field, else the whole payload as text.
C13_FallbackChain ==
    (Dispatched /\ HasVariant /\ call.variant # "openrouter" /\ ~NoHttpAttempt
     /\ ret.kind = "return" /\ ~Has(ret.data, "error")) =>
        outcome = Returned(Some(FallbackText(ret.data)))

\* what the callee was handed counts as a response / as an error
GotResponse(d) == Truthy(d.response)

GotError(d) == Truthy(d.error)

\* C15 as stated: every outcome handed over for an endpoint, and every entry
\* returned, holds either a response text or an error message that is not
\* empty: never both and never neither, whatever the payload was (a null or
\* empty choices[0].message.content included).
C15_ResponseXorError ==
    /\ \A k \in DOMAIN delivered : GotResponse(delivered[k]) # GotError(delivered[k])
    /\ \A k \in DOMAIN results : GotResponse(results[k]) # GotError(results[k])

\* the payload's text field is a string that starts, blanks aside, with
\* "<!DOCTYPE" or "<html"
TextHoldsMarkup(p) ==
    /\ Has(p, "text")
    /\ \E k \in DOMAIN p.text.v :
          /\ p.text.v[k] \in {"<!DOCTYPE", "<html"}
          /\ \A j \in 1..(k - 1) : IsBlankTok(p.text.v[j])

SaysMarkup(msg) == msg # << >> /\ msg[1] = "HTML instead of JSON from OpenRouter. Current URL:"

\* C21: for the OpenRouter variant, a payload whose text field holds markup
\* gives a failure that reports the markup, whether or not the payload also
\* has an error field or choices; and every request of the OpenRouter
\* variant has max_tokens = 4096 in its body.
C21_MarkupTextFailsFirst ==
    /\ (Dispatched /\ HasVariant /\ call.variant = "openrouter" /\ ~NoHttpAttempt
         /\ ret.kind = "return" /\ TextHoldsMarkup(ret.data)) =>
            /\ outcome.exc = "APIError" /\ SaysMarkup(outcome.msg)
            /\ \A k \in DOMAIN delivered :
                  ~GotResponse(delivered[k]) /\ delivered[k].error = Some(outcome.msg)
    /\ (HasVariant /\ call.variant = "openrouter") =>
            \A k \in DOMAIN events :
                events[k].e = "http" => events[k].body.max_tokens = "4096"

\* an OpenRouter endpoint was answered {"error": ..., "text": "<html ..."}
\* and the failure handed over reports the markup
C21_Witness ==
    /\ pc = "done" /\ HasVariant /\ call.variant = "openrouter"
    /\ ret.kind = "return" /\ Has(ret.data, "error") /\ TextHoldsMarkup(ret.data)
    /\ Len(delivered) = 1 /\ SaysMarkup(delivered[1].error[1])
    /\ \E k \in DOMAIN events : events[k].e = "http" /\ events[k].body.max_tokens = "4096"

-----------------------------------------------------------------------------
(* Properties of the request a variant builds (SpecBuild) *)

\* the endpoint being dispatched and its tag
Current == models[idx]

InDispatch == pc \in {"post", "parse", "deliver"}

\* the variant the rule of C11 gives for a tag
VariantByRule(tag) ==
    LET words == { LowerTok(tag[k]) : k \in DOMAIN tag }
    IN  IF "openrouter" \in words THEN "openrouter"
        ELSE IF "openai" \in words \/ "gpt" \in words THEN "openai"
        ELSE IF "deepseek" \in words THEN "deepseek"
        ELSE IF "groq" \in words THEN "groq"
        ELSE "generic"

\* C11: for every tag (a string: empty, of one keyword, of several, in any
\* letter case) send_prompt_to_model selects exactly one variant, the one the
\* rule gives: openrouter first, then openai or gpt, then deepseek, then groq,
\* and Generic for everything else; the request posted is that variant's.
C11_VariantByTag ==
    (InDispatch /\ Current.model_type # None) =>
        /\ call.variant = VariantByRule(Current.model_type[1])
        /\ call.exc = "none" =>
              /\ (call.req.body.max_tokens = "4096") = (call.variant = "openrouter")
              /\ (call.req.headers.XTitle = "ChatList") = (call.variant = "openrouter")
              /\ (call.req.body.temperature = "absent") = (call.variant = "generic")

\* "DeepSeek gpt" goes to the OpenAI variant and the request has been posted
C11_Witness ==
    /\ pc = "done"
    /\ models[1].model_type = Some(<<"DeepSeek", "gpt">>)
    /\ call.variant = "openai"
    /\ \E k \in DOMAIN events : events[k].e = "http"

\* C32: an endpoint whose model_type is NULL is dispatched like an endpoint
\* with a tag that matches no provider: through the Generic variant, with
\* the same credential lookup and the same request.
C32_NullTagIsGeneric ==
    (Dispatched /\ TheModel.model_type = None) =>
        call = Prepare(environ, [TheModel EXCEPT !.model_type = Some(<<"custom">>)])

OpenAICompatibleBody(model) ==
    [model       |-> model.name,
     messages    |-> << [role |-> "user", content |-> Prompt] >>,
     temperature |-> "0.7",
     max_tokens  |-> "absent"]

\* C12 as stated: every request the OpenAI, DeepSeek, Groq or Generic variant
\* posts has the body {model: the endpoint's name, messages: [one user
\* message with the prompt], temperature: 0.7}, so the bodies of any two of
\* these variants are equal.
C12_SameBodyForAllVariants ==
    \A k \in DOMAIN events :
        (events[k].e = "http"
         /\ VariantByRule(models[events[k].i].model_type[1]) # "openrouter")
            => events[k].body = OpenAICompatibleBody(models[events[k].i])

PointsAtOpenRouter(url) == Contains(Lower(url), "openrouter.ai")

EndsInCanonicalPath(url) == url # << >> /\ url[Len(url)] = CanonicalPath

\* C14 as stated: every request of an OpenRouter endpoint whose configured
\* URL points at openrouter.ai and does not end in /api/v1/chat/completions
\* is posted to https://openrouter.ai/api/v1/chat/completions.
C14_UrlRewrittenUnlessCanonicalEnd ==
    \A k \in DOMAIN events :
        LET m == models[events[k].i]
        IN  (events[k].e = "http"
             /\ VariantByRule(m.model_type[1]) = "openrouter"
             /\ PointsAtOpenRouter(m.api_url)
             /\ ~EndsInCanonicalPath(m.api_url))
                => events[k].url = CanonicalUrl

\* C35: the URL an OpenRouter endpoint's request is posted to is the
\* configured URL without the blanks around it when that URL does not
\* contain openrouter.ai, and also when it is the canonical URL; and
\* correcting the URL that was posted to gives that URL again.
C35_UrlCorrectionIdempotent ==
    \A k \in DOMAIN events :
        LET m == models[events[k].i]
        IN  (events[k].e = "http" /\ VariantByRule(m.model_type[1]) = "openrouter") =>
                /\ ~PointsAtOpenRouter(m.api_url) => events[k].url = Strip(m.api_url)
                /\ Strip(m.api_url) = CanonicalUrl => events[k].url = CanonicalUrl
                /\ OpenRouterUrl(events[k].url) = events[k].url

\* requests of OpenRouter endpoints: one whose URL was corrected, and (in
\* another run) one whose URL, not at openrouter.ai, was only stripped
C35_Witness ==
    /\ pc = "done" /\ events # << >> /\ events[1].e = "http"
    /\ VariantByRule(models[1].model_type[1]) = "openrouter"
    /\ \/ models[1].api_url = <<" ">> \o BrowseUrl \o <<" ">> /\ events[1].url = CanonicalUrl
       \/ models[1].api_url = <<"\t">> \o ApiUrl \o <<" ">> /\ events[1].url = ApiUrl

-----------------------------------------------------------------------------
(* Further properties of the fan-out (Spec, SpecEnv) *)

OfEndpoint(s, i) == SelectSeq(s, LAMBDA x : x.i = i)

\* everything done for endpoint i (attempts with their requests and answers,
\* sleeps, callback invocations), without the index
TraceOf(i) ==
    LET own == OfEndpoint(events, i)
    IN  [k \in DOMAIN own |-> [own[k] EXCEPT !.i = 0]]

\* the answers the transport gave to the attempts of endpoint i
AnswersOf(i) ==
    LET own == SelectSeq(OfEndpoint(events, i), IsAttempt)
    IN  [k \in DOMAIN own |-> own[k].o]

\* what was handed over for endpoint i
OutcomesOf(i) ==
    LET own == OfEndpoint(delivered, i)
    IN  [k \in DOMAIN own |-> [response |-> own[k].response, error |-> own[k].error]]

C18_CredentialReadAtDispatch ==
    (InDispatch /\ Current.model_type # None /\ Strip(Current.api_id) # << >>) =>
        LET name == Strip(Current.api_id)
            own  == SelectSeq(OfEndpoint(events, idx), IsAttempt)
        IN  IF name \in DOMAIN environ /\ environ[name] # << >>
            THEN /\ call.exc = "none"
                 /\ call.req.headers.Authorization = <<"Bearer">> \o environ[name]
                 /\ \A k \in DOMAIN own : own[k].key = <<"Bearer">> \o environ[name]
            ELSE /\ call.exc = "APIError"
                 /\ own = << >>

\* two endpoints read API_KEY: the first was sent sk-1, the second, after the
\* value was changed, sk-2
C18_Witness ==
    /\ pc = "done" /\ Len(models) = 2
    /\ models[1].api_id = KeyVar /\ models[2].api_id = KeyVar
    /\ \E k \in DOMAIN events :
          events[k].e = "http" /\ events[k].i = 1 /\ events[k].key = <<"Bearer">> \o Secret
    /\ \E k \in DOMAIN events :
          events[k].e = "http" /\ events[k].i = 2 /\ events[k].key = <<"Bearer">> \o Secret2

\* the request URL of endpoint i differs from the URL of its record
UrlRewrittenFor(i) ==
    \E k \in DOMAIN events :
        events[k].e = "http" /\ events[k].i = i /\ events[k].url # models[i].api_url

\* C22: no step of a dispatch changes an endpoint record (name, URL,
\* credential variable, provider tag, active flag), and the record handed
\* to the callback and the record of every returned entry is the endpoint's
\* record as it was given, also for an OpenRouter endpoint whose request
\* went to a rewritten URL.
C22_RecordsUnchanged ==
    /\ [][models' = models]_vars
    /\ [](\A k \in DOMAIN delivered : delivered[k].model = models[delivered[k].i])
    /\ [](\A k \in DOMAIN results : results[k].model = models[k])

\* an OpenRouter endpoint's request went to the canonical URL and the record
\* handed over with its outcome still holds the URL that was configured
C22_Witness ==
    /\ pc = "done" /\ Len(models) >= 1
    /\ models[1].api_url = BrowseUrl /\ UrlRewrittenFor(1)
    /\ \E k \in DOMAIN delivered :
          delivered[k].i = 1 /\ delivered[k].model.api_url = BrowseUrl

IsPaymentRequired(o) == o.t = "http" /\ o.status = 402

\* endpoint A (the first of two) got a completion as its last answer, the
\* first answer endpoint B (the second) got is a 402, and B's iteration is
\* over
ScenarioAB ==
    /\ Len(models) = 2 /\ idx > 2
    /\ AnswersOf(1) # << >> /\ AnswersOf(1)[Len(AnswersOf(1))] = Ok200
    /\ AnswersOf(2) # << >> /\ IsPaymentRequired(AnswersOf(2)[1])

\* C19: in that case, a callback being given, the first outcome handed over
\* is (A, A's text, no error); exactly one outcome is handed over for B, it
\* is the last one, has no response and its error mentions credits or
\* payment; one HTTP attempt was made for B; and a callback that returns
\* has been handed these two outcomes and nothing else.
C19_SuccessThenPaymentRequired ==
    (ScenarioAB /\ cbmode # "none") =>
        LET forB == OfEndpoint(delivered, 2)
        IN  /\ delivered # << >>
            /\ delivered[1].i = 1 /\ delivered[1].model = models[1]
            /\ delivered[1].response = Some(Hi) /\ ~GotError(delivered[1])
            /\ Len(forB) = 1
            /\ delivered[Len(delivered)] = forB[1]
            /\ forB[1].model = models[2]
            /\ ~GotResponse(forB[1]) /\ GotError(forB[1])
            /\ \E k \in DOMAIN forB[1].error[1] :
                  LowerTok(forB[1].error[1][k]) \in {"credits", "payment"}
            /\ Len(SelectSeq(OfEndpoint(events, 2), IsAttempt)) = 1
            /\ cbmode = "ok" => Len(delivered) = 2

\* A answered "hi", B's 402 carried {"error": {"message": "bad key"}}
C19_Witness ==
    /\ ScenarioAB /\ pc = "done" /\ impl = "handler" /\ cbmode = "ok"
    /\ Len(delivered) = 2
    /\ delivered[2].error = Some(NotEnoughCredits(BadKey))
    /\ Len(results) = 2 /\ IsSuccess(results[1]) /\ IsFailure(results[2])

\* the same when B's 402 did not carry an error object with a null message
C19_ExceptForNullMessage ==
    \/ /\ ScenarioAB
       /\ AnswersOf(2)[1].body.json
       /\ AnswersOf(2)[1].body.data.error.t = "dict_null"
    \/ C19_SuccessThenPaymentRequired

-----------------------------------------------------------------------------
(* Properties of the main window (SpecWindow) *)

\* a SendPromptThread was started and its finished signal is not handled yet
BatchOpen == ThreadRunning \/ (pc = "done" /\ win.handled < Len(Signals))

\* C23: from the start of a SendPromptThread until its finished signal is
\* handled the send button is disabled, and a SendPromptThread is started
\* only when no earlier one is running or waits for its finished signal to
\* be handled.
C23_OneBatchInFlight ==
    /\ [](BatchOpen => ~win.send_button)
    /\ [][(win.batch # win'.batch) => (~BatchOpen /\ win.send_button)]_vars

\* a second batch, started after the first one was over, is running
C23_Witness ==
    /\ win.batch = 0 /\ calls = <<Called("send_prompt", <<"h", "e", "y">>, <<"started">>)>>
    /\ ThreadRunning /\ idx = 2 /\ ~win.send_button

-----------------------------------------------------------------------------
(* Properties of the Database (SpecSettings, SpecPrompts, SpecModels,
   SpecResults) *)

\* the positions before n of the calls that write the setting key
WritesBefore(n, key) ==
    { j \in 1..(n - 1) : /\ calls[j].op \in {"set_setting", "delete_setting"}
                         /\ calls[j].args[1] = key }

Latest(S) == CHOOSE j \in S : \A k \in S : k <= j

\* C24: every get_setting(k, default) returns the value of the latest
\* set_setting on k if there is one, no delete_setting on k came after it and
\* its value is not null, whatever was written to other keys in between;
\* otherwise (never set, deleted, or set to null) it returns default.
C24_SettingsRoundTrip ==
    \A n \in DOMAIN calls :
        calls[n].op = "get_setting" =>
            LET key == calls[n].args[1]
                W   == WritesBefore(n, key)
            IN  IF /\ W # {}
                   /\ calls[Latest(W)].op = "set_setting"
                   /\ calls[Latest(W)].args[2] # None
                THEN calls[n].val = calls[Latest(W)].args[2]
                ELSE calls[n].val = calls[n].args[2]

\* theme was set twice, another key was written and deleted in between, and
\* get_setting gives the second value of theme
C24_Witness ==
    /\ Len(calls) = 4
    /\ calls[1].op = "set_setting" /\ calls[1].args = <<<<"theme">>, Some(<<"dark">>)>>
    /\ calls[2].op = "set_setting" /\ calls[2].args = <<<<"font_size">>, Some(<<"dark">>)>>
    /\ calls[3].op = "set_setting" /\ calls[3].args = <<<<"theme">>, Some(<<"light">>)>>
    /\ calls[4].op = "get_setting" /\ calls[4].args = <<<<"theme">>, Some(<<"dflt">>)>>
    /\ calls[4].val = Some(<<"light">>)

\* call n is a call of op that returned
Did(n, op) == calls[n].op = op /\ calls[n].exc = "none"

\* the positions between a and n of the calls of op on the prompt id
PromptCallsBetween(a, n, op, id) ==
    { j \in (a + 1)..(n - 1) : Did(j, op) /\ calls[j].args[1] = id }

\* C25: every add_prompt that returns gives a positive id that no earlier
\* add_prompt gave; get_prompt_by_id(id) returns None when no add_prompt gave
\* that id or a delete_prompt of it came after, and otherwise a row with that
\* id whose text, as long as no update_prompt with a text came in between, is
\* the text that was added.
C25_PromptIdsAndText ==
    \A n \in DOMAIN calls :
        /\ Did(n, "add_prompt") =>
               /\ calls[n].val > 0
               /\ \A j \in 1..(n - 1) : Did(j, "add_prompt") => calls[j].val # calls[n].val
        /\ Did(n, "get_prompt_by_id") =>
               LET id    == calls[n].args[1]
                   added == { j \in 1..(n - 1) : Did(j, "add_prompt") /\ calls[j].val = id }
               IN  IF \A a \in added : PromptCallsBetween(a, n, "delete_prompt", id) # {}
                   THEN calls[n].val = None
                   ELSE /\ calls[n].val # None
                        /\ calls[n].val[1].id = id
                        /\ \A a \in added :
                              (\A j \in PromptCallsBetween(a, n, "update_prompt", id) :
                                  calls[j].args[2] = None)
                              => calls[n].val[1].prompt = calls[a].args[1][1]

\* a prompt was added, deleted, another one added under a new id and read back
C25_Witness ==
    /\ Len(calls) = 4
    /\ Did(1, "add_prompt") /\ calls[1].val = 1
    /\ Did(2, "delete_prompt") /\ calls[2].args = <<1>>
    /\ Did(3, "add_prompt") /\ calls[3].val = 2 /\ calls[3].args = <<Some(<<"first">>)>>
    /\ Did(4, "get_prompt_by_id") /\ calls[4].args = <<2>>
    /\ calls[4].val # None /\ calls[4].val[1].prompt = <<"first">>

\* the positions before n of the calls that returned and wrote is_active of
\* the model id: its add_model, and update_model / set_model_active with a
\* value, once the model was added
ActiveWritesBefore(n, id) ==
    { j \in 1..(n - 1) :
        \/ Did(j, "add_model") /\ calls[j].val = id
        \/ /\ calls[j].op \in {"update_model", "set_model_active"}
           /\ calls[j].exc = "none"
           /\ calls[j].args[1] = id /\ calls[j].args[3] # None }

\* the value a write of is_active wrote
ActiveWritten(j) ==
    IF calls[j].op = "add_model" THEN calls[j].args[2] ELSE calls[j].args[3][1]

\* the ids that, by the calls before n, are stored and active: added, not
\* deleted since, and the latest write of is_active wrote 1
ExpectedActive(n) ==
    { id \in 1..MaxCalls :
        /\ \E j \in 1..(n - 1) : Did(j, "add_model") /\ calls[j].val = id
        /\ \A j \in 1..(n - 1) : ~(Did(j, "delete_model") /\ calls[j].args[1] = id)
        /\ ActiveWritten(Latest(ActiveWritesBefore(n, id))) = 1 }

\* C26: whatever add_model, update_model, set_model_active and delete_model
\* calls came before, get_models(active_only=True), and so the list
\* get_active_models hands to the dispatch, holds each stored model whose
\* is_active is 1 once and no other model.
C26_ActiveModelsExactly ==
    \A n \in DOMAIN calls :
        calls[n].op \in {"get_models", "get_active_models"} =>
            LET rows == calls[n].val
            IN  /\ { rows[k].id : k \in DOMAIN rows } = ExpectedActive(n)
                /\ Len(rows) = Cardinality(ExpectedActive(n))
                /\ \A k \in DOMAIN rows : rows[k].is_active = 1
                /\ n = Len(calls) =>
                      \A k \in DOMAIN db.models :
                          db.models[k].is_active = 1 =>
                              \E j \in DOMAIN rows : rows[j] = db.models[k]

\* two models were added as active, the first was deactivated, and the
\* dispatch is offered the second only
C26_Witness ==
    /\ Len(calls) = 4
    /\ Did(1, "add_model") /\ calls[1].args = <<NameOf(1), 1>>
    /\ Did(2, "add_model") /\ calls[2].args = <<NameOf(2), 1>>
    /\ Did(3, "set_model_active") /\ calls[3].args = <<1, None, Some(0)>> /\ calls[3].val
    /\ calls[4].op = "get_active_models"
    /\ Len(calls[4].val) = 1 /\ calls[4].val[1].name = NameOf(2)

\* the positions before n of the save_result calls for (p, m) that returned
SavesBefore(n, p, m) ==
    { j \in 1..(n - 1) : Did(j, "save_result") /\ calls[j].args[1] = p /\ calls[j].args[2] = m }

\* by the calls before n a result is stored for (p, m): it was saved and the
\* row of the latest save was not deleted since
StoredBefore(n, p, m) ==
    /\ SavesBefore(n, p, m) # {}
    /\ LET j == Latest(SavesBefore(n, p, m))
       IN  \A k \in (j + 1)..(n - 1) :
               ~(Did(k, "delete_result") /\ calls[k].args[1] = calls[j].val)

\* C27: every save_result that returns gives a positive id; every
\* get_results(prompt_id = p) holds, for each model m, exactly one row if a
\* result is stored for (p, m), with the response of the latest save for
\* (p, m), and no row otherwise; and the table never holds two rows of the
\* same (prompt, model) pair.
C27_OneResultPerPair ==
    /\ \A n \in DOMAIN calls :
          /\ Did(n, "save_result") => calls[n].val > 0
          /\ (calls[n].op = "get_results" /\ calls[n].args[1] # None) =>
                LET p    == calls[n].args[1][1]
                    rows == calls[n].val
                IN  \A m \in {1, 2} :
                      LET of == SelectSeq(rows, LAMBDA r : r.model_id = m)
                      IN  IF StoredBefore(n, p, m) /\ calls[n].args[2] \in {None, Some(m)}
                          THEN /\ Len(of) = 1
                               /\ of[1].prompt_id = p
                               /\ of[1].response =
                                     calls[Latest(SavesBefore(n, p, m))].args[3][1]
                          ELSE of = << >>
    /\ \A j, k \in DOMAIN db.results :
          (db.results[j].prompt_id = db.results[k].prompt_id
           /\ db.results[j].model_id = db.results[k].model_id) => j = k

\* a result was saved twice for (1, 1) and once for (1, 2); get_results for
\* prompt 1 gives two rows, the one of model 1 with the second response
C27_Witness ==
    /\ Len(calls) = 4
    /\ Did(1, "save_result") /\ calls[1].args = <<1, 1, Some(<<"answer">>)>>
    /\ Did(2, "save_result") /\ calls[2].args = <<1, 2, Some(<<"answer">>)>>
    /\ Did(3, "save_result") /\ calls[3].args = <<1, 1, Some(<<"other", "answer">>)>>
    /\ calls[4].op = "get_results" /\ calls[4].args = <<Some(1), None>>
    /\ Len(calls[4].val) = 2
    /\ calls[4].val[1].model_id = 1 /\ calls[4].val[1].response = <<"other", "answer">>

-----------------------------------------------------------------------------
(* Properties of PromptImprover.improve_prompt, checked under SpecImprove *)

ImproveDone == impl = "improver" /\ pc = "done"

ImproveArgsInvalid == Strip(calls[1].args[1]) = << >> \/ calls[1].args[2] = None

\* C28: improve_prompt raises ValueError for an empty or blank prompt and
\* for a missing model, before any request is made; when the call of the
\* model returned, the result is a dictionary with the keys improved,
\* variants, explanation and original, improved is not empty and original
\* is the stripped prompt; when the call of the model failed with an
\* APIError, improve_prompt raises an APIError.
C28_ImproveContract ==
    ImproveDone =>
        /\ ImproveArgsInvalid =>
              calls[1].exc = "ValueError" /\ attempt = 0 /\ call = NoCall
        /\ (~ImproveArgsInvalid /\ outcome.exc = "none") =>
              /\ calls[1].exc = "none"
              /\ calls[1].val.improved # None /\ calls[1].val.improved[1] # << >>
              /\ calls[1].val.variants # None
              /\ calls[1].val.explanation # None
              /\ calls[1].val.original = Some(Strip(calls[1].args[1]))
        /\ (~ImproveArgsInvalid /\ outcome.exc = "APIError") =>
              calls[1].exc = "APIError"

\* the contract of C28 when the model answered with a text
C28_ImproveContractForText ==
    (ImproveDone /\ ~ImproveArgsInvalid /\ outcome.exc = "none" /\ outcome.val = None)
    \/ C28_ImproveContract

-----------------------------------------------------------------------------
(* Properties of one run of SendPromptThread, checked under SpecWindowFair *)

FinishedEmitted == \E k \in DOMAIN Signals : Signals[k].e = "finished"

\* one result_received for each model, in the order of the list, each with
\* its own model record, then finished, once and last
SignalsInListOrder ==
    /\ Len(Signals) <= Len(models) + 1
    /\ \A k \in DOMAIN Signals :
          IF k <= Len(models)
          THEN /\ Signals[k].e = "cb" /\ Signals[k].i = k
               /\ delivered[k].i = k /\ delivered[k].model = models[k]
          ELSE Signals[k].e = "finished"
    /\ Len(delivered) = Len(SelectSeq(Signals, LAMBDA ev : ev.e = "cb"))
    /\ pc = "done" => Len(Signals) = Len(models) + 1

\* C29 as stated: in one run of SendPromptThread one result_received is
\* emitted for each model, in list order, and finished is emitted once,
\* after the last result_received; every started run eventually emits
\* finished and the send button, disabled at the start, is eventually
\* enabled again.
C29_EveryRunFinishes ==
    /\ []SignalsInListOrder
    /\ ThreadRunning ~> FinishedEmitted
    /\ (~win.send_button) ~> win.send_button

\* C29, amended: the same, unless the window is closed before: closeEvent
\* terminates a running thread, which then emits nothing more, and no slot
\* runs after it.
C29_EveryRunFinishesUnlessClosed ==
    /\ []SignalsInListOrder
    /\ ThreadRunning ~> (FinishedEmitted \/ win.closed)
    /\ (~win.send_button) ~> (win.send_button \/ win.closed)

\* a run over two models is over: two result_received and finished were
\* emitted and handled, and the button is enabled again
C29_Witness ==
    /\ impl = "thread" /\ pc = "done" /\ Len(models) = 2
    /\ Len(Signals) = 3 /\ Signals[3].e = "finished"
    /\ win.handled = 3 /\ win.rows = 2
    /\ win.batch = 1 /\ win.send_button /\ ~win.closed

-----------------------------------------------------------------------------
(* A callback that raises, under Spec *)

\* C30: when the callback raises while it is handed the outcome of endpoint
\* i in send_prompt_to_all_active, it is not invoked a second time for i,
\* the entry of i holds the outcome it was handed (the one obtained from
\* the endpoint), no exception leaves the loop and the endpoints after i
\* are dispatched: the call returns with an entry for every endpoint.
C30_RaisingCallbackContained ==
    (impl = "handler" /\ cbmode \in {"raise_on_response", "raise_always"}) =>
        /\ \A i \in DOMAIN models : Len(OfEndpoint(delivered, i)) <= 1
        /\ \A i \in DOMAIN results :
              /\ OfEndpoint(delivered, i) # << >>
              /\ results[i].response = OfEndpoint(delivered, i)[1].response
              /\ results[i].error = OfEndpoint(delivered, i)[1].error
        /\ pc # "escaped"
        /\ pc = "done" => Len(results) = Len(models)

-----------------------------------------------------------------------------
(* Agreement of the two fan-outs (SpecAgree) *)

\* what an outcome handed over says: for which endpoint, failure or not, and
\* the response text
PairOf(d) ==
    [i |-> d.i, model |-> d.model, failed |-> Truthy(d.error), text |-> OrEmpty(d.response)]

PairsOf(ds) == [k \in DOMAIN ds |-> PairOf(ds[k])]

IsPrefix(s, t) == Len(s) <= Len(t) /\ SubSeq(t, 1, Len(s)) = s

ThreadRunAfterHandler == impl = "thread" /\ calls # << >>

\* C34: SendPromptThread.run, given the list, prompt, environment and
\* transport answers of a run of send_prompt_to_all_active, hands over the
\* same (endpoint, success or failure) pairs with the same response texts in
\* the same order, and makes the same HTTP attempts (same endpoint, attempt
\* number, URL, key, body) in the same order: at every moment what it has
\* done is the beginning of what the handler did, it never asks for an
\* attempt the handler did not make, and at its end it has done all of it.
C34_FanOutsAgree ==
    ThreadRunAfterHandler =>
        /\ IsPrefix(PairsOf(delivered), PairsOf(Recorded.delivered))
        /\ IsPrefix(HttpEventsOf(events), HttpEventsOf(Recorded.events))
        /\ (pc = "post" /\ attempt < max_retries) => ReplayOutcomes # {}
        /\ pc = "done" =>
              /\ Len(delivered) = Len(Recorded.delivered)
              /\ Len(HttpEventsOf(events)) = Len(HttpEventsOf(Recorded.events))

\* two endpoints: the first answered after a timeout, the second failed with
\* a 402; the thread has done the same as the handler
C34_Witness ==
    /\ ThreadRunAfterHandler /\ pc = "done" /\ Len(models) = 2
    /\ Len(delivered) = 2
    /\ GotResponse(delivered[1]) /\ GotError(delivered[2])
    /\ Len(HttpEventsOf(events)) = 3
    /\ HttpEventsOf(events)[1].o = Timeout
    /\ IsPaymentRequired(HttpEventsOf(events)[3].o)


-----------------------------------------------------------------------------
(* Properties of SpecCascade *)

\* C36: every stored result refers to a stored prompt and to a stored model:
\* after delete_prompt(p) no result has prompt_id p, after delete_model(m)
\* no result has model_id m.
C36_NoDanglingResults ==
    \A k \in DOMAIN db.results :
        /\ db.results[k].prompt_id \in IdsOf(db.prompts)
        /\ db.results[k].model_id \in IdsOf(db.models)

-----------------------------------------------------------------------------
(* Properties of SpecRetry *)

\* the attempts and the sleeps of a call, in order: attempt numbers and seconds
Schedule(evs) == [k \in DOMAIN evs |-> <<evs[k].e, evs[k].n>>]

GetRunAfterPost == impl = "get" /\ pc = "done" /\ calls # << >>

\* C37: get, answered at every attempt as post was, makes the attempts post
\* made and sleeps as post slept.
C37_SameRetryPolicy ==
    GetRunAfterPost => Schedule(events) = Schedule(Recorded.events)

\* C37, for the outcomes both handle alike: when post met no HTTP error
\* status and no other request exception, get makes the same attempts with
\* the same sleeps
C37_SameForTimeoutsAndConnectionErrors ==
    (/\ GetRunAfterPost
     /\ \A k \in DOMAIN Recorded.events :
            LET ev == Recorded.events[k]
            IN  ev.e = "http" => ~(ev.o.t = "reqexc" \/ IsHttpError(ev.o.status)))
    => Schedule(events) = Schedule(Recorded.events)

=============================================================================
